---- MODULE Spec2Model ----
(***************************************************************************)
(* A model of auto-restic: the server's startup and exclusive job          *)
(* scheduler (cmd/server/main.go, internal/config, internal/restic), the   *)
(* job bodies (internal/task/task.go) and the streaming export pipeline    *)
(* (createAndUploadEncryptedDump).                                         *)
(*                                                                         *)
(* The module holds several specifications over one set of variables:      *)
(*   Spec      the server process: startup, triggers, the limit-mode      *)
(*             queue, job runs as sequences of engine calls, shutdown      *)
(*   FairSpec  the serving scheduler without a termination signal, with    *)
(*             the fairness of the runner and of terminating job runs      *)
(*   PipeSpec  one call of createAndUploadEncryptedDump: the caller, the   *)
(*             producer goroutine, the pipe and the upload                 *)
(*   BackupSpec  calls of task.Backup on a configuration of backup units   *)
(*   ExportSpec  one call of task.S3Backup on a repository of snapshots    *)
(*   MetricsSpec  calls of task.UpdateAllMetrics on a repository and a     *)
(*             bucket                                                      *)
(*   StartupSpec  main() from config.Get on: configuration, repository,    *)
(*             object store, job registration, then the serving scheduler  *)
(*   MaintenanceSpec  calls of task.ResticCheck and task.ForgetAndPrune    *)
(*   JobSpec   one call of any of the five task functions                  *)
(*   LibSpec   one call of a helper function: snapshot name resolution,    *)
(*             the object key and its name in the listing, the tar writer  *)
(*             and extractor, the gauge setters                            *)
(*   StaleSpec  one call of task.UpdateAllMetrics after an earlier refresh  *)
(*             and the removal of snapshots and objects                    *)
(***************************************************************************)
EXTENDS Integers, Sequences, FiniteSets, TLC

(***************************************************************************)
(* Bounds of the model.                                                    *)
(***************************************************************************)
MaxQueue == 2      \* triggers waiting in the limit-mode queue
MaxFired == 2      \* triggers fired per job
MaxTriggers == 4   \* triggers fired in all
MaxCalls == 2      \* engine calls of one job run
NumUnits == 2      \* configured backup units
MaxRuns == 1       \* task function calls in the task specifications
MaxSnapshots == 2  \* snapshots in the repository
MaxSize == 1       \* size of one snapshot
MaxDuration == 1   \* measured duration of one unit, in seconds
MaxChunks == 2     \* archive chunks WriteTar writes
ChunkSize == 2     \* bytes of one write to the pipe
MaxBootUnits == 2  \* entries of the backups section at startup
MaxTags == 2       \* tags of one snapshot
MaxEntries == 3    \* entries of one directory tree

(***************************************************************************)
(* main() before scheduler.Start(): cmd/server/main.go, internal/config,   *)
(* internal/restic                                                         *)
(***************************************************************************)
VARIABLES
    bootPc,     \* position of main() before the scheduler is started: "config"
                \* (config.Get), "restic" (restic.NewRestic), "s3" (s3.Get),
                \* "jobs" (the scheduler.NewJob calls), "ready", "panicked"
    env,        \* what the process finds: [secrets, units, invalidCron,
                \* password, initFails, bucket]
    disk,       \* the repository path: "missing", "emptyDir" (a directory
                \* that holds no repository), "repository", "unreadable"
    initRuns,   \* runs of `restic init` so far
    initOnRepository, \* `restic init` ran against a path that held a repository
    bootErr,    \* the error main() panicked with, "nil" if none
    registered  \* the jobs the scheduler accepted

bootVars == <<bootPc, env, disk, initRuns, initOnRepository, bootErr, registered>>

(***************************************************************************)
(* The server: cmd/server/main.go                                          *)
(***************************************************************************)
VARIABLES
    mainPc,     \* position of main(): "startup", "serving", "shutdown" (inside
                \* scheduler.Shutdown()), "stopped" ("scheduler stopped" logged),
                \* "httpDown" (server.Shutdown returned), "exited"
    queue,      \* the limit-mode queue of fired triggers, oldest first
    runner,     \* the limit-mode runners: [job, pc, calls], pc one of "idle",
                \* "body" (Go code of the task), "engine" (blocked in an engine
                \* or object-store call), "killed" (process exit ended it)
    fired,      \* per job: triggers fired so far
    started,    \* per job: runs started so far
    finished,   \* per job: runs that returned
    stopTimedOut \* scheduler.Shutdown() returned on its stop timeout

schedVars == <<mainPc, queue, runner, fired, started, finished, stopTimedOut>>

(***************************************************************************)
(* One call of createAndUploadEncryptedDump: internal/task/task.go         *)
(***************************************************************************)
VARIABLES
    passphrase, \* the passphrase argument: "" or "secret"
    callerPc,   \* the calling goroutine: "idle", "mkdir", "restore", "pipe",
                \* "upload" (inside s3.StreamUploadFile), "join" (<-errCh),
                \* "returned"
    result,     \* the returned error: "none" while running, "ok" for nil,
                \* "mkdirErr", "restoreErr", "uploadErr", "archiveErr"
    tmpDir,     \* the temporary directory: "none", "exists", "removed"
    prodPc,     \* the producer goroutine: "none", "recipient", "encrypt", "tar",
                \* "send" (errCh <- err), "gzipClose", "ageClose", "pwClose", "done"
    prodErr,    \* the producer's local err: "nil" or the stage that failed
    stageFailed, \* the producer stages that returned an error so far
    chunks,     \* archive chunks WriteTar pushed through gzip and age so far
    pipe,       \* the io.Pipe: [open, pending, writing, wClosed, eof, offered, read]
    errCh,      \* the buffered (capacity 1) result channel, oldest first
    joined,     \* the caller received the producer's result from errCh
    upload,     \* the PutObject call: "none", "reading", "ok", "failed"
    defers,     \* the producer's deferred calls, the next to run first
    stored,     \* the object version this call stored: "none", "complete"
                \* (whole archive) or "truncated"
    firstError  \* the side whose error occurred first: "none", "producer", "upload"

pipeVars == <<passphrase, callerPc, result, tmpDir, prodPc, prodErr, stageFailed,
              chunks, defers, pipe, errCh, joined, upload, stored, firstError>>

(***************************************************************************)
(* The task functions of internal/task/task.go, run one at a time.         *)
(***************************************************************************)
VARIABLES
    Backups,    \* c.Backups: the configured units, [Name, PreCommand, PostCommand]
    m,          \* the metrics registry: one function per metric vector, from
                \* the labels whose series exist to their values
    repo,       \* the repository: its snapshots [ID, Name, Time, Size], oldest first
    clock,      \* the wall clock, in seconds
    job,        \* the task function executing: "none", "Backup", ...
    pc,         \* its position: the call it makes next
    idx,        \* the index in c.Backups of the unit a loop is at
    runs,       \* task functions called so far
    outcome,    \* per unit index: how the unit ended in the current run
    callLog,    \* the external calls of the current run, in order: <<op, name>>
    urm,        \* locals of updateResticMetrics: count, totalSize, latestSize,
                \* latestTime and the names whose stats query is still to come
    latest,     \* local `snapshots` of S3Backup: the latest-snapshot listing
    bucket      \* the bucket: its object versions [Key, Size, IsLatest,
                \* CreatedAt], oldest first

taskVars == <<Backups, m, repo, clock, job, pc, idx, runs, outcome, callLog, urm,
              latest, bucket>>

VARIABLES
    libArg,     \* the arguments of a call of one of the helper functions below
                \* (snapshotJson.GetName, the key of an export and its name in
                \* the listing, utils.WriteTar and utils.ExtractTar, the
                \* setters of Metrics), [fn |-> "none"] when none is called
    libRes      \* what the call returned, [fn |-> "none"] before it returns

libVars == <<libArg, libRes>>

vars == <<libVars, bootVars, schedVars, pipeVars, taskVars>>

\* No helper function is called on its own (the state of these variables in
\* the specifications of the server and of its jobs).
LibIdle ==
    /\ libArg = [fn |-> "none"]
    /\ libRes = [fn |-> "none"]

\* The five jobs registered with scheduler.NewJob.
Jobs == {"backup", "check", "prune", "s3", "metrics"}

\* Jobs registered with gocron.WithStartImmediately().
StartImmediatelyJobs == {"metrics"}

\* gocron.WithLimitConcurrentJobs(1, ...): the limit.
ConcurrencyLimit == 1

\* A mutant of the scheduler: one runner more than the limit.
Runners_OneMore == 1..(ConcurrencyLimit + 1)

\* The limit-mode runners of the scheduler, as many as the limit.
Runners == 1..ConcurrencyLimit

IdleRunner == [job |-> "none", pc |-> "idle", calls |-> 0]

Busy(r) == runner[r].pc \in {"body", "engine"}

AllIdle == \A r \in Runners : ~Busy(r)

RECURSIVE Count(_, _)
Count(j, q) ==
    IF q = <<>> THEN 0
    ELSE (IF Head(q) = j THEN 1 ELSE 0) + Count(j, Tail(q))

RECURSIVE SetToSeq(_)
SetToSeq(S) ==
    IF S = {} THEN <<>>
    ELSE LET x == CHOOSE y \in S : TRUE IN <<x>> \o SetToSeq(S \ {x})

Sum(f) ==
    LET RECURSIVE S(_)
        S(D) == IF D = {} THEN 0
                ELSE LET x == CHOOSE y \in D : TRUE IN f[x] + S(D \ {x})
    IN S(DOMAIN f)

\* A mutant of the limit mode: gocron.LimitModeReschedule skips a trigger that
\* finds every runner busy.
LimitModeReschedule(q, j) ==
    IF \E r \in Runners : ~Busy(r) THEN Append(q, j) ELSE q

\* gocron.LimitModeWait: a fired trigger is queued for the runners.
LimitModeEnqueue(q, j) == Append(q, j)

(***************************************************************************)
(* Startup: config.Get, restic.NewRestic, s3.Get and the job registration. *)
(***************************************************************************)
\* The settings config.Get requires to be non-empty, in the order it checks them.
RequiredSecrets ==
    <<"RESTIC_PASSWORD", "S3_ACCESS_KEY", "S3_SECRET_KEY", "S3_ENDPOINT",
      "S3_BUCKET", "S3_PASSPHRASE">>

SecretNames == {RequiredSecrets[i] : i \in 1..Len(RequiredSecrets)}

\* The names a backup unit can carry.
UnitNames == <<"A", "B", "C", "D">>

\* The files that exist beside the configuration.
ExistingFiles == {"exclude.txt"}

\* The backups section of a configuration: names may repeat, the path may be
\* empty, the exclude file may be unset or missing.
BootUnits ==
    [Name : {UnitNames[1], UnitNames[2]},
     Path : {"", "/data"},
     ExcludeFile : {"", "missing.txt"}]

BootUnitsOfLen(n) == [1..n -> BootUnits]

\* Two entries of the backups section carry the same name.
HasDuplicateName(units) ==
    \E i, k \in 1..Len(units) : i < k /\ units[i].Name = units[k].Name

\* The duplicate check of unit i as no check at all.
NameSeenBefore_Never(units, i) == FALSE

\* names[backup.Name] at unit i: an earlier unit carried the name.
NameSeenBefore(units, i) == \E k \in 1..(i - 1) : units[k].Name = units[i].Name

\* The validation of unit i in config.Get's loop: the first check that fails.
UnitError(units, i) ==
    IF units[i].Path = "" THEN "pathRequired"
    ELSE IF NameSeenBefore(units, i) THEN "duplicateName"
    ELSE IF units[i].ExcludeFile # "" /\ units[i].ExcludeFile \notin ExistingFiles
         THEN "excludeFileMissing"
    ELSE "nil"

\* config.Get: the error of the first validation that fails, "nil" if none does.
Get(e) ==
    IF \E i \in 1..Len(RequiredSecrets) : RequiredSecrets[i] \notin e.secrets
    THEN "secretRequired"
    ELSE IF \E i \in 1..Len(e.units) : UnitError(e.units, i) # "nil"
         THEN LET i == CHOOSE k \in 1..Len(e.units) :
                           /\ UnitError(e.units, k) # "nil"
                           /\ \A h \in 1..(k - 1) : UnitError(e.units, h) = "nil"
              IN  UnitError(e.units, i)
         ELSE "nil"

\* r.exists(): os.Stat of the repository path.
exists(d) ==
    CASE d \in {"emptyDir", "repository"} -> "true"
      [] d = "missing" -> "false"
      [] OTHER -> "error"

\* r.isPasswordCorrect(): `restic snapshots` exits with 0, which takes a
\* repository at the path and the password that opens it.
isPasswordCorrect(d, e) == d = "repository" /\ e.password = "right"

\* r.init(): `restic init` exits with 0; it creates the repository in a path
\* that is missing or an empty directory and refuses one that holds a repository.
init(d, e) == d \in {"missing", "emptyDir"} /\ ~e.initFails

\* restic.NewRestic: the error it returns, "nil" if none.
NewRestic(d, e) ==
    CASE exists(d) = "error" -> "existsError"
      [] exists(d) = "true" ->
            IF isPasswordCorrect(d, e) THEN "nil" ELSE "passwordIncorrect"
      [] OTHER -> IF init(d, e) THEN "nil" ELSE "initError"

\* NewRestic reaches r.init().
RunsInit(d) == exists(d) = "false"

BootInit ==
    /\ bootPc = "config"
    /\ \E n \in 0..MaxBootUnits :
          env \in [secrets : {SecretNames} \cup {SecretNames \ {s} : s \in SecretNames},
                   units : BootUnitsOfLen(n),
                   invalidCron : {{}} \cup {{j} : j \in Jobs},
                   password : {"right", "wrong"},
                   initFails : BOOLEAN,
                   bucket : BOOLEAN]
    /\ disk \in {"missing", "emptyDir", "repository", "unreadable"}
    \* the password is tried only on a repository, and init only where none is
    /\ disk = "repository" => ~env.initFails
    /\ disk # "repository" => env.password = "right"
    /\ initRuns = 0
    /\ initOnRepository = FALSE
    /\ bootErr = "nil"
    /\ registered = {}

\* Startup is over: every call succeeded and every job was accepted (the state
\* of these variables in the specifications that start later).
BootDone ==
    /\ bootPc = "ready"
    /\ env = [secrets |-> SecretNames, units |-> <<>>, invalidCron |-> {},
              password |-> "right", initFails |-> FALSE, bucket |-> TRUE]
    /\ disk = "repository"
    /\ initRuns = 0
    /\ initOnRepository = FALSE
    /\ bootErr = "nil"
    /\ registered = Jobs

\* panicOnError(message, err): a non-nil error ends the process.
panicOnError(err, next) ==
    /\ bootPc' = IF err = "nil" THEN next ELSE "panicked"
    /\ bootErr' = err

\* c, err := config.Get(); panicOnError(...)
ConfigGet ==
    /\ bootPc = "config"
    /\ panicOnError(Get(env), "restic")
    /\ UNCHANGED <<env, disk, initRuns, initOnRepository, registered>>
    /\ UNCHANGED <<libVars, schedVars, pipeVars, taskVars>>

\* r, err := restic.NewRestic(...); panicOnError(...)
OpenRepository ==
    /\ bootPc = "restic"
    /\ panicOnError(NewRestic(disk, env), "s3")
    /\ initRuns' = IF RunsInit(disk) THEN initRuns + 1 ELSE initRuns
    /\ initOnRepository' = (initOnRepository \/ (RunsInit(disk) /\ disk = "repository"))
    /\ disk' = IF RunsInit(disk) /\ init(disk, env) THEN "repository" ELSE disk
    /\ UNCHANGED <<env, registered>>
    /\ UNCHANGED <<libVars, schedVars, pipeVars, taskVars>>

\* s, err := s3.Get(...); panicOnError(...): the bucket has to exist.
S3Get ==
    /\ bootPc = "s3"
    /\ panicOnError(IF env.bucket THEN "nil" ELSE "bucketError", "jobs")
    /\ UNCHANGED <<env, disk, initRuns, initOnRepository, registered>>
    /\ UNCHANGED <<libVars, schedVars, pipeVars, taskVars>>

\* scheduler.NewJob(gocron.CronJob(expr, true), ...): the job is accepted when
\* its expression parses.
NewJob(j) == j \notin env.invalidCron

\* The five scheduler.NewJob calls; main() drops what they return.
NewJobs ==
    /\ bootPc = "jobs"
    /\ bootPc' = "ready"
    /\ registered' = {j \in Jobs : NewJob(j)}
    /\ UNCHANGED <<env, disk, initRuns, initOnRepository, bootErr>>
    /\ UNCHANGED <<libVars, schedVars, pipeVars, taskVars>>

SchedInit ==
    /\ mainPc = "startup"
    /\ queue = <<>>
    /\ runner = [r \in Runners |-> IdleRunner]
    /\ fired = [j \in Jobs |-> 0]
    /\ started = [j \in Jobs |-> 0]
    /\ finished = [j \in Jobs |-> 0]
    /\ stopTimedOut = FALSE

\* scheduler.Start(): the jobs' timers are armed and the jobs registered with
\* WithStartImmediately are handed to the executor at once.
StartScheduler ==
    /\ bootPc = "ready"
    /\ mainPc = "startup"
    /\ mainPc' = "serving"
    /\ queue' = queue \o SetToSeq(StartImmediatelyJobs \cap registered)
    /\ fired' = [j \in Jobs |-> IF j \in StartImmediatelyJobs \cap registered
                                 THEN fired[j] + 1 ELSE fired[j]]
    /\ UNCHANGED <<runner, started, finished, stopTimedOut>>
    /\ UNCHANGED <<libVars, bootVars, pipeVars, taskVars>>

\* The cron timer of job j fires while the scheduler is started; only a job the
\* scheduler accepted has a timer.
Trigger(j) ==
    /\ mainPc = "serving"
    /\ j \in registered
    /\ fired[j] < MaxFired
    /\ Sum(fired) < MaxTriggers
    /\ Len(queue) < MaxQueue
    /\ queue' = LimitModeEnqueue(queue, j)
    /\ fired' = [fired EXCEPT ![j] = @ + 1]
    /\ UNCHANGED <<mainPc, runner, started, finished, stopTimedOut>>
    /\ UNCHANGED <<libVars, bootVars, pipeVars, taskVars>>

\* An idle runner takes the oldest queued trigger and calls the task function.
\* After Shutdown() cancelled the executor no run is started.
StartJob(r) ==
    /\ mainPc = "serving"
    /\ runner[r].pc = "idle"
    /\ queue # <<>>
    /\ runner' = [runner EXCEPT ![r] = [job |-> Head(queue), pc |-> "body", calls |-> 0]]
    /\ queue' = Tail(queue)
    /\ started' = [started EXCEPT ![Head(queue)] = @ + 1]
    /\ UNCHANGED <<mainPc, fired, finished, stopTimedOut>>
    /\ UNCHANGED <<libVars, bootVars, pipeVars, taskVars>>

\* The running task starts an engine, shell or object-store call and blocks in it.
BeginCall(r) ==
    /\ mainPc # "exited"
    /\ runner[r].pc = "body"
    /\ runner[r].calls < MaxCalls
    /\ runner' = [runner EXCEPT ![r].pc = "engine"]
    /\ UNCHANGED <<mainPc, queue, fired, started, finished, stopTimedOut>>
    /\ UNCHANGED <<libVars, bootVars, pipeVars, taskVars>>

\* The call returns to the task.
EndCall(r) ==
    /\ mainPc # "exited"
    /\ runner[r].pc = "engine"
    /\ runner' = [runner EXCEPT ![r].pc = "body", ![r].calls = @ + 1]
    /\ UNCHANGED <<mainPc, queue, fired, started, finished, stopTimedOut>>
    /\ UNCHANGED <<libVars, bootVars, pipeVars, taskVars>>

\* The task function returns; every task makes at least one call
\* (Check, ForgetAndPrune, ListSnapshots or ListLatestSnapshots).
ReturnJob(r) ==
    /\ mainPc # "exited"
    /\ runner[r].pc = "body"
    /\ runner[r].calls >= 1
    /\ finished' = [finished EXCEPT ![runner[r].job] = @ + 1]
    /\ runner' = [runner EXCEPT ![r] = IdleRunner]
    /\ UNCHANGED <<mainPc, queue, fired, started, stopTimedOut>>
    /\ UNCHANGED <<libVars, bootVars, pipeVars, taskVars>>

\* <-osSignal; scheduler.Shutdown() is called: the executor is cancelled.
Signal ==
    /\ mainPc = "serving"
    /\ mainPc' = "shutdown"
    /\ UNCHANGED <<queue, runner, fired, started, finished, stopTimedOut>>
    /\ UNCHANGED <<libVars, bootVars, pipeVars, taskVars>>

\* scheduler.Shutdown() returns, and "scheduler stopped" is logged: when the
\* running jobs have returned, or when the scheduler's stop timeout (not set in
\* NewScheduler, so the library's default) has elapsed while a job still runs.
ShutdownReturns ==
    /\ mainPc = "shutdown"
    /\ \E timeout \in BOOLEAN :
        /\ timeout \/ AllIdle
        /\ stopTimedOut' = (timeout /\ ~AllIdle)
    /\ mainPc' = "stopped"
    /\ UNCHANGED <<queue, runner, fired, started, finished>>
    /\ UNCHANGED <<libVars, bootVars, pipeVars, taskVars>>

\* server.Shutdown(ctx) returns.
HttpShutdown ==
    /\ mainPc = "stopped"
    /\ mainPc' = "httpDown"
    /\ UNCHANGED <<queue, runner, fired, started, finished, stopTimedOut>>
    /\ UNCHANGED <<libVars, bootVars, pipeVars, taskVars>>

\* wg.Wait() returns and main returns: the process exits, and a task still
\* running in its goroutine ends with it.
Exit ==
    /\ mainPc = "httpDown"
    /\ mainPc' = "exited"
    /\ runner' = [r \in Runners |-> IF Busy(r) THEN [runner[r] EXCEPT !.pc = "killed"] ELSE runner[r]]
    /\ UNCHANGED <<queue, fired, started, finished, stopTimedOut>>
    /\ UNCHANGED <<libVars, bootVars, pipeVars, taskVars>>

(***************************************************************************)
(* createAndUploadEncryptedDump: the caller, the producer goroutine, the   *)
(* io.Pipe between them and the upload reading the pipe.                   *)
(***************************************************************************)

\* errCh := make(chan error, 1)
ErrChCapacity == 1

NoPipe == [open |-> FALSE, pending |-> 0, writing |-> FALSE, wClosed |-> 0,
           eof |-> FALSE, offered |-> 0, read |-> 0]

\* No call in progress (the state of these variables in the scheduler's
\* specifications).
PipeIdle ==
    /\ passphrase = "secret"
    /\ callerPc = "idle"
    /\ result = "none"
    /\ tmpDir = "none"
    /\ prodPc = "none"
    /\ prodErr = "nil"
    /\ stageFailed = {}
    /\ chunks = 0
    /\ defers = <<>>
    /\ pipe = NoPipe
    /\ errCh = <<>>
    /\ joined = FALSE
    /\ upload = "none"
    /\ stored = "none"
    /\ firstError = "none"

\* The function is entered, with either passphrase.
PipeInit ==
    /\ passphrase \in {"", "secret"}
    /\ callerPc = "mkdir"
    /\ result = "none"
    /\ tmpDir = "none"
    /\ prodPc = "none"
    /\ prodErr = "nil"
    /\ stageFailed = {}
    /\ chunks = 0
    /\ defers = <<>>
    /\ pipe = NoPipe
    /\ errCh = <<>>
    /\ joined = FALSE
    /\ upload = "none"
    /\ stored = "none"
    /\ firstError = "none"

\* A mutant of the cleanup: the directory is removed on the success path only.
TmpDirAfterReturn_SuccessOnly(res, dir) ==
    IF dir = "exists" /\ res = "ok" THEN "removed" ELSE dir

\* defer os.RemoveAll(tmpDir), registered once MkdirTemp succeeded: the state of
\* the directory after the function returned res.
TmpDirAfterReturn(res, dir) ==
    IF dir = "exists" THEN "removed" ELSE dir

\* The caller returns res; the deferred RemoveAll runs.
Return(res) ==
    /\ callerPc' = "returned"
    /\ result' = res
    /\ tmpDir' = TmpDirAfterReturn(res, tmpDir)

\* The first error of the call is on `side`, unless one occurred already.
NoteError(side) == firstError' = IF firstError = "none" THEN side ELSE firstError

\* os.MkdirTemp
MkdirTemp ==
    /\ callerPc = "mkdir"
    /\ \E ok \in BOOLEAN :
        IF ok THEN /\ tmpDir' = "exists"
                   /\ callerPc' = "restore"
                   /\ UNCHANGED result
              ELSE Return("mkdirErr")
    /\ UNCHANGED <<passphrase, prodPc, prodErr, stageFailed, chunks, defers, pipe,
                   errCh, joined, upload, stored, firstError>>
    /\ UNCHANGED <<libVars, bootVars, schedVars, taskVars>>

\* The restore called after the pipe is made and the goroutine is started.
Restore_PipeFirst ==
    /\ callerPc = "restore"
    /\ \E ok \in BOOLEAN :
        IF ok THEN /\ callerPc' = "pipe"
                   /\ UNCHANGED <<result, tmpDir, pipe, errCh, prodPc, defers>>
              ELSE /\ Return("restoreErr")
                   /\ pipe' = [NoPipe EXCEPT !.open = TRUE]
                   /\ errCh' = <<>>
                   /\ prodPc' = "recipient"
                   /\ defers' = <<"pw.Close">>
    /\ UNCHANGED <<passphrase, prodErr, stageFailed, chunks, joined, upload, stored,
                   firstError>>
    /\ UNCHANGED <<libVars, bootVars, schedVars, taskVars>>

\* r.Restore(snapshot.ID, tmpDir)
Restore ==
    /\ callerPc = "restore"
    /\ \E ok \in BOOLEAN :
        IF ok THEN /\ callerPc' = "pipe"
                   /\ UNCHANGED <<result, tmpDir>>
              ELSE Return("restoreErr")
    /\ UNCHANGED <<passphrase, prodPc, prodErr, stageFailed, chunks, defers, pipe,
                   errCh, joined, upload, stored, firstError>>
    /\ UNCHANGED <<libVars, bootVars, schedVars, taskVars>>

\* pr, pw := io.Pipe(); errCh := make(chan error, 1); go func() {...}(); the
\* caller enters s3.StreamUploadFile. The goroutine's first statement is
\* defer pw.Close().
OpenPipe ==
    /\ callerPc = "pipe"
    /\ pipe' = [NoPipe EXCEPT !.open = TRUE]
    /\ errCh' = <<>>
    /\ prodPc' = "recipient"
    /\ defers' = <<"pw.Close">>
    /\ callerPc' = "upload"
    /\ upload' = "reading"
    /\ UNCHANGED <<passphrase, result, tmpDir, prodErr, stageFailed, chunks,
                   joined, stored, firstError>>
    /\ UNCHANGED <<libVars, bootVars, schedVars, taskVars>>

\* A stage failure after which the goroutine returns without sending.
StageFails_NoSend(stage) ==
    /\ prodErr' = stage
    /\ stageFailed' = stageFailed \cup {stage}
    /\ NoteError("producer")
    /\ prodPc' = "deferred"

\* A stage of the producer returned an error that the code assigns to err.
StageFails(stage) ==
    /\ prodErr' = stage
    /\ stageFailed' = stageFailed \cup {stage}
    /\ NoteError("producer")
    /\ prodPc' = "send"

\* age.NewScryptRecipient(passphrase): fails on an empty passphrase.
NewScryptRecipient ==
    /\ prodPc = "recipient"
    /\ IF passphrase = ""
       THEN StageFails("recipient")
       ELSE /\ prodPc' = "encrypt"
            /\ UNCHANGED <<prodErr, stageFailed, firstError>>
    /\ UNCHANGED <<passphrase, callerPc, result, tmpDir, chunks, defers, pipe,
                   errCh, joined, upload, stored>>
    /\ UNCHANGED <<libVars, bootVars, schedVars, taskVars>>

\* pw.Write(b) with n bytes is entered: the bytes are offered to the reader.
WriteBegin(p, n) ==
    [p EXCEPT !.pending = @ + n, !.offered = @ + n, !.writing = TRUE]

\* A mutant of the pipe: a buffered conduit, whose Write returns at once.
WriteReturns_Buffered(p) == TRUE

\* io.Pipe: Write returns once the reader has consumed every byte of it.
WriteReturns(p) == p.pending = 0

\* age.Encrypt(pw, recipient): writes the header to pw, or fails.
Encrypt ==
    /\ prodPc = "encrypt"
    /\ \E ok \in BOOLEAN :
        IF ok THEN /\ \E n \in 1..ChunkSize : pipe' = WriteBegin(pipe, n)
                   /\ prodPc' = "encryptWrite"
                   /\ UNCHANGED <<prodErr, stageFailed, firstError>>
              ELSE /\ StageFails("encrypt")
                   /\ UNCHANGED pipe
    /\ UNCHANGED <<passphrase, callerPc, result, tmpDir, chunks, defers,
                   errCh, joined, upload, stored>>
    /\ UNCHANGED <<libVars, bootVars, schedVars, taskVars>>

\* The header is written: defer ageWriter.Close(); gzip.NewWriter(ageWriter);
\* defer gzipWriter.Close().
EncryptReturns ==
    /\ prodPc = "encryptWrite"
    /\ WriteReturns(pipe)
    /\ pipe' = [pipe EXCEPT !.writing = FALSE]
    /\ defers' = <<"gzipWriter.Close", "ageWriter.Close">> \o defers
    /\ prodPc' = "tar"
    /\ UNCHANGED <<passphrase, callerPc, result, tmpDir, prodErr, stageFailed,
                   chunks, errCh, joined, upload, stored, firstError>>
    /\ UNCHANGED <<libVars, bootVars, schedVars, taskVars>>

\* utils.WriteTar pushes one more chunk of the archive through gzip and age
\* into the pipe.
WriteTarChunk ==
    /\ prodPc = "tar"
    /\ chunks < MaxChunks
    /\ \E n \in 1..ChunkSize : pipe' = WriteBegin(pipe, n)
    /\ prodPc' = "tarWrite"
    /\ UNCHANGED <<passphrase, callerPc, result, tmpDir, prodErr, stageFailed,
                   chunks, defers, errCh, joined, upload, stored, firstError>>
    /\ UNCHANGED <<libVars, bootVars, schedVars, taskVars>>

WriteTarChunkReturns ==
    /\ prodPc = "tarWrite"
    /\ WriteReturns(pipe)
    /\ pipe' = [pipe EXCEPT !.writing = FALSE]
    /\ chunks' = chunks + 1
    /\ prodPc' = "tar"
    /\ UNCHANGED <<passphrase, callerPc, result, tmpDir, prodErr, stageFailed,
                   defers, errCh, joined, upload, stored, firstError>>
    /\ UNCHANGED <<libVars, bootVars, schedVars, taskVars>>

\* err = utils.WriteTar(gzipWriter, tmpDir) returns: nil after the whole tree,
\* or the error of the walk, of a file or of a write.
WriteTarReturns ==
    /\ prodPc = "tar"
    /\ \E ok \in BOOLEAN :
        IF ok THEN /\ prodErr' = "nil"
                   /\ prodPc' = "send"
                   /\ UNCHANGED <<stageFailed, firstError>>
              ELSE StageFails("tar")
    /\ UNCHANGED <<passphrase, callerPc, result, tmpDir, chunks, defers, pipe,
                   errCh, joined, upload, stored>>
    /\ UNCHANGED <<libVars, bootVars, schedVars, taskVars>>

\* errCh <- err (the channel holds one value, so the send never blocks), and
\* the goroutine returns into its deferred calls.
SendResult ==
    /\ prodPc = "send"
    /\ Len(errCh) < ErrChCapacity
    /\ errCh' = Append(errCh, prodErr)
    /\ prodPc' = "deferred"
    /\ UNCHANGED <<passphrase, callerPc, result, tmpDir, prodErr, stageFailed,
                   chunks, defers, pipe, joined, upload, stored, firstError>>
    /\ UNCHANGED <<libVars, bootVars, schedVars, taskVars>>

\* defer gzipWriter.Close(): flushes the compressor into the encryptor; the
\* error it returns is dropped.
GzipClose ==
    /\ prodPc = "deferred"
    /\ defers # <<>> /\ Head(defers) = "gzipWriter.Close"
    /\ \E ok \in BOOLEAN :
        IF ok THEN UNCHANGED <<stageFailed, firstError>>
              ELSE /\ stageFailed' = stageFailed \cup {"gzipClose"}
                   /\ NoteError("producer")
    /\ defers' = Tail(defers)
    /\ UNCHANGED <<passphrase, callerPc, result, tmpDir, prodPc, prodErr, chunks,
                   pipe, errCh, joined, upload, stored>>
    /\ UNCHANGED <<libVars, bootVars, schedVars, taskVars>>

\* defer ageWriter.Close(): writes the final chunk to pw, or fails; the error
\* it returns is dropped.
AgeClose ==
    /\ prodPc = "deferred"
    /\ defers # <<>> /\ Head(defers) = "ageWriter.Close"
    /\ \E ok \in BOOLEAN :
        IF ok THEN /\ \E n \in 1..ChunkSize : pipe' = WriteBegin(pipe, n)
                   /\ prodPc' = "ageCloseWrite"
                   /\ UNCHANGED <<stageFailed, firstError, defers>>
              ELSE /\ stageFailed' = stageFailed \cup {"ageClose"}
                   /\ NoteError("producer")
                   /\ defers' = Tail(defers)
                   /\ UNCHANGED <<pipe, prodPc>>
    /\ UNCHANGED <<passphrase, callerPc, result, tmpDir, prodErr, chunks,
                   errCh, joined, upload, stored>>
    /\ UNCHANGED <<libVars, bootVars, schedVars, taskVars>>

AgeCloseReturns ==
    /\ prodPc = "ageCloseWrite"
    /\ WriteReturns(pipe)
    /\ pipe' = [pipe EXCEPT !.writing = FALSE]
    /\ defers' = Tail(defers)
    /\ prodPc' = "deferred"
    /\ UNCHANGED <<passphrase, callerPc, result, tmpDir, prodErr, stageFailed,
                   chunks, errCh, joined, upload, stored, firstError>>
    /\ UNCHANGED <<libVars, bootVars, schedVars, taskVars>>

\* defer pw.Close(): the reader sees end-of-stream after the bytes written.
PwClose ==
    /\ prodPc = "deferred"
    /\ defers # <<>> /\ Head(defers) = "pw.Close"
    /\ pipe' = [pipe EXCEPT !.wClosed = @ + 1]
    /\ defers' = Tail(defers)
    /\ UNCHANGED <<passphrase, callerPc, result, tmpDir, prodPc, prodErr,
                   stageFailed, chunks, errCh, joined, upload, stored, firstError>>
    /\ UNCHANGED <<libVars, bootVars, schedVars, taskVars>>

\* The goroutine ends.
ProducerDone ==
    /\ prodPc = "deferred"
    /\ defers = <<>>
    /\ prodPc' = "done"
    /\ UNCHANGED <<passphrase, callerPc, result, tmpDir, prodErr, stageFailed,
                   chunks, defers, pipe, errCh, joined, upload, stored, firstError>>
    /\ UNCHANGED <<libVars, bootVars, schedVars, taskVars>>

\* PutObject reads k of the bytes a blocked Write offers.
UploadRead ==
    /\ callerPc = "upload"
    /\ ~pipe.eof
    /\ pipe.pending > 0
    /\ \E k \in 1..pipe.pending :
        pipe' = [pipe EXCEPT !.pending = @ - k, !.read = @ + k]
    /\ UNCHANGED <<passphrase, callerPc, result, tmpDir, prodPc, prodErr,
                   stageFailed, chunks, defers, errCh, joined, upload, stored,
                   firstError>>
    /\ UNCHANGED <<libVars, bootVars, schedVars, taskVars>>

\* PutObject reads end-of-stream: the write side is closed.
UploadEOF ==
    /\ callerPc = "upload"
    /\ ~pipe.eof
    /\ pipe.wClosed > 0
    /\ pipe.pending = 0
    /\ pipe' = [pipe EXCEPT !.eof = TRUE]
    /\ UNCHANGED <<passphrase, callerPc, result, tmpDir, prodPc, prodErr,
                   stageFailed, chunks, defers, errCh, joined, upload, stored,
                   firstError>>
    /\ UNCHANGED <<libVars, bootVars, schedVars, taskVars>>

\* s3.StreamUploadFile returns nil: the stream read up to end-of-stream is
\* stored as a new version of the object.
UploadSucceeds ==
    /\ callerPc = "upload"
    /\ pipe.eof
    /\ upload' = "ok"
    /\ stored' = IF stageFailed = {} THEN "complete" ELSE "truncated"
    /\ callerPc' = "join"
    /\ UNCHANGED <<passphrase, result, tmpDir, prodPc, prodErr, stageFailed,
                   chunks, defers, pipe, errCh, joined, firstError>>
    /\ UNCHANGED <<libVars, bootVars, schedVars, taskVars>>

\* s3.StreamUploadFile returns an error, at any point of the stream or after
\* its end: the caller returns it at once.
UploadFails ==
    /\ callerPc = "upload"
    /\ upload' = "failed"
    /\ NoteError("upload")
    /\ Return("uploadErr")
    /\ UNCHANGED <<passphrase, prodPc, prodErr, stageFailed, chunks, defers,
                   pipe, errCh, joined, stored>>
    /\ UNCHANGED <<libVars, bootVars, schedVars, taskVars>>

\* err := <-errCh after a successful upload.
Join ==
    /\ callerPc = "join"
    /\ errCh # <<>>
    /\ joined' = TRUE
    /\ errCh' = Tail(errCh)
    /\ Return(IF Head(errCh) = "nil" THEN "ok" ELSE "archiveErr")
    /\ UNCHANGED <<passphrase, prodPc, prodErr, stageFailed, chunks, defers,
                   pipe, upload, stored, firstError>>
    /\ UNCHANGED <<libVars, bootVars, schedVars, taskVars>>

Producer ==
    \/ NewScryptRecipient
    \/ Encrypt
    \/ EncryptReturns
    \/ WriteTarChunk
    \/ WriteTarChunkReturns
    \/ WriteTarReturns
    \/ SendResult
    \/ GzipClose
    \/ AgeClose
    \/ AgeCloseReturns
    \/ PwClose
    \/ ProducerDone

PipeNext ==
    \/ MkdirTemp
    \/ Restore
    \/ OpenPipe
    \/ UploadRead
    \/ UploadEOF
    \/ UploadSucceeds
    \/ UploadFails
    \/ Join
    \/ Producer

(***************************************************************************)
(* The metrics registry: internal/metrics/metrics.go                       *)
(***************************************************************************)

SchedulerErrors == {"restic_check", "restic_forget_and_prune", "restic_list_snapshots",
                    "restic_get_snapshot_stats", "s3_list_objects"}

\* The value of the series of label l, 0 when WithLabelValues creates it.
Val(vec, l) == IF l \in DOMAIN vec THEN vec[l] ELSE 0

\* Inc() as a counter that stops at one.
VecInc_Once(vec, l) ==
    [x \in DOMAIN vec \cup {l} |-> IF x = l THEN 1 ELSE vec[x]]

\* vec.WithLabelValues(l).Inc()
VecInc(vec, l) ==
    [x \in DOMAIN vec \cup {l} |-> IF x = l THEN Val(vec, l) + 1 ELSE vec[x]]

\* The gauge added to instead of set.
VecSet_Add(vec, l, v) ==
    [x \in DOMAIN vec \cup {l} |-> IF x = l THEN Val(vec, l) + v ELSE vec[x]]

\* vec.WithLabelValues(l).Set(v)
VecSet(vec, l, v) ==
    [x \in DOMAIN vec \cup {l} |-> IF x = l THEN v ELSE vec[x]]

NoSeries == [x \in {} |-> 0]

\* NewMetrics(): the vectors exist; the scheduler error counter has a series
\* of value 0 for every operation class.
NewMetrics ==
    [schedulerErrors               |-> [op \in SchedulerErrors |-> 0],
     resticSnapshotErrors          |-> NoSeries,
     resticSnapshotLatestDuration  |-> NoSeries,
     resticSnapshotLatestSize      |-> NoSeries,
     resticSnapshotLatestTimestamp |-> NoSeries,
     resticSnapshotCount           |-> NoSeries,
     resticSnapshotTotalSize       |-> NoSeries,
     s3SnapshotErrors              |-> NoSeries,
     s3SnapshotLatestDuration      |-> NoSeries,
     s3SnapshotLatestSize          |-> NoSeries,
     s3SnapshotLatestTimestamp     |-> NoSeries,
     s3SnapshotCount               |-> NoSeries,
     s3SnapshotTotalSize           |-> NoSeries]

\* The counter moved by two for one error.
AddSchedulerError_Twice(mm, operation) ==
    [mm EXCEPT !.schedulerErrors = VecInc(VecInc(@, operation), operation)]

AddSchedulerError(mm, operation) ==
    [mm EXCEPT !.schedulerErrors = VecInc(@, operation)]

AddResticErrorByBackupName(mm, name) ==
    [mm EXCEPT !.resticSnapshotErrors = VecInc(@, name)]

SetResticStatsByBackupName(mm, name, count, totalSize, latestSize, latestTime) ==
    [mm EXCEPT !.resticSnapshotCount = VecSet(@, name, count),
               !.resticSnapshotTotalSize = VecSet(@, name, totalSize),
               !.resticSnapshotLatestSize = VecSet(@, name, latestSize),
               !.resticSnapshotLatestTimestamp = VecSet(@, name, latestTime)]

SetResticDurationByBackupName(mm, name, duration) ==
    [mm EXCEPT !.resticSnapshotLatestDuration = VecSet(@, name, duration)]

(***************************************************************************)
(* task.Backup and updateResticMetrics                                     *)
(***************************************************************************)

\* The configurations: NumUnits units of distinct names, each with or
\* without a pre-command and a post-command.
Configs ==
    {c \in [1..NumUnits -> [Name : {"A", "B", "C", "D"}, PreCommand : {"", "pre.sh"},
                            PostCommand : {"", "post.sh"}]] :
        \A i \in 1..NumUnits : c[i].Name = UnitNames[i]}

ConfigNames == {Backups[i].Name : i \in 1..Len(Backups)}

NoUrm == [count |-> NoSeries, totalSize |-> NoSeries, latestSize |-> NoSeries,
          latestTime |-> NoSeries, remaining |-> {}]

TaskInit ==
    /\ Backups \in Configs
    /\ m = NewMetrics
    /\ repo = <<>>
    /\ clock = 1
    /\ job = "none"
    /\ pc = "idle"
    /\ idx = 0
    /\ runs = 0
    /\ outcome = [i \in 1..NumUnits |-> "pending"]
    /\ callLog = <<>>
    /\ urm = NoUrm
    /\ latest = <<>>
    /\ bucket = <<>>

\* No task is running and none starts (the state of these variables in the
\* scheduler's and the pipeline's specifications).
TaskIdle ==
    /\ Backups = [i \in 1..NumUnits |-> [Name |-> UnitNames[i], PreCommand |-> "", PostCommand |-> ""]]
    /\ m = NewMetrics
    /\ repo = <<>>
    /\ clock = 1
    /\ job = "none"
    /\ pc = "idle"
    /\ idx = 0
    /\ runs = 0
    /\ outcome = [i \in 1..NumUnits |-> "pending"]
    /\ callLog = <<>>
    /\ urm = NoUrm
    /\ latest = <<>>
    /\ bucket = <<>>

\* The first call of the loop body for unit i of task.Backup, or the listing
\* of updateResticMetrics after the last unit.
UnitEntry(i) ==
    IF i > Len(Backups) THEN "list"
    ELSE IF Backups[i].PreCommand # "" THEN "pre" ELSE "backup"

\* A mutant of the loop: a failed unit ends the loop (break instead of continue).
BreakAfterFailure(i) == Len(Backups) + 1

\* The loop trying the failed unit again.
RetryAfterFailure(i) == i

\* The loop going back to the unit before the failed one.
StepBackAfterFailure(i) == IF i > 1 THEN i - 1 ELSE i + 1

\* continue: the loop goes on with the next unit.
ContinueAfterFailure(i) == i + 1

\* task.Backup is called.
BackupBegin ==
    /\ job = "none"
    /\ runs < MaxRuns
    /\ Len(repo) + Len(Backups) <= MaxSnapshots
    /\ job' = "Backup"
    /\ runs' = runs + 1
    /\ idx' = 1
    /\ pc' = UnitEntry(1)
    /\ outcome' = [i \in 1..NumUnits |-> "pending"]
    /\ callLog' = <<>>
    /\ UNCHANGED <<Backups, latest, bucket, m, repo, clock, urm>>
    /\ UNCHANGED <<libVars, bootVars, schedVars, pipeVars>>

\* The failed unit's duration measured and set like that of a finished one.
UnitFails_SetsDuration(stage) ==
    /\ m' = SetResticDurationByBackupName(
                AddResticErrorByBackupName(m, Backups[idx].Name), Backups[idx].Name, 1)
    /\ outcome' = [outcome EXCEPT ![idx] = stage]
    /\ idx' = ContinueAfterFailure(idx)
    /\ pc' = UnitEntry(ContinueAfterFailure(idx))

\* The unit at idx failed at `stage`: its error counter is incremented and the
\* loop continues.
UnitFails(stage) ==
    /\ m' = AddResticErrorByBackupName(m, Backups[idx].Name)
    /\ outcome' = [outcome EXCEPT ![idx] = stage]
    /\ idx' = ContinueAfterFailure(idx)
    /\ pc' = UnitEntry(ContinueAfterFailure(idx))

\* The unit at idx went through: its duration gauge is set.
UnitDone ==
    /\ \E d \in 1..MaxDuration :
        m' = SetResticDurationByBackupName(m, Backups[idx].Name, d)
    /\ outcome' = [outcome EXCEPT ![idx] = "ok"]
    /\ idx' = idx + 1
    /\ pc' = UnitEntry(idx + 1)

\* exec.Command("sh", "-c", backup.PreCommand).Run()
PreCommand ==
    /\ job = "Backup"
    /\ pc = "pre"
    /\ callLog' = Append(callLog, <<"pre", Backups[idx].Name>>)
    /\ \E ok \in BOOLEAN :
        IF ok THEN /\ pc' = "backup"
                   /\ UNCHANGED <<m, outcome, idx>>
              ELSE UnitFails("preFail")
    /\ UNCHANGED <<Backups, latest, bucket, repo, clock, job, runs, urm>>
    /\ UNCHANGED <<libVars, bootVars, schedVars, pipeVars>>

\* r.BackupDirectory(backup.Name, ...): on success the repository holds a new
\* snapshot tagged name=<backup.Name>.
BackupDirectory ==
    /\ job = "Backup"
    /\ pc = "backup"
    /\ callLog' = Append(callLog, <<"backup", Backups[idx].Name>>)
    /\ \E ok \in BOOLEAN :
        IF ok
        THEN /\ \E size \in 1..MaxSize :
                    repo' = Append(repo, [ID |-> Len(repo) + 1, Name |-> Backups[idx].Name,
                                          Time |-> clock, Size |-> size])
             /\ clock' = clock + 1
             /\ IF Backups[idx].PostCommand # ""
                THEN /\ pc' = "post"
                     /\ UNCHANGED <<m, outcome, idx>>
                ELSE UnitDone
        ELSE /\ UnitFails("backupFail")
             /\ UNCHANGED <<repo, clock>>
    /\ UNCHANGED <<Backups, latest, bucket, job, runs, urm>>
    /\ UNCHANGED <<libVars, bootVars, schedVars, pipeVars>>

\* exec.Command("sh", "-c", backup.PostCommand).Run()
PostCommand ==
    /\ job = "Backup"
    /\ pc = "post"
    /\ callLog' = Append(callLog, <<"post", Backups[idx].Name>>)
    /\ \E ok \in BOOLEAN :
        IF ok THEN UnitDone ELSE UnitFails("postFail")
    /\ UNCHANGED <<Backups, latest, bucket, repo, clock, job, runs, urm>>
    /\ UNCHANGED <<libVars, bootVars, schedVars, pipeVars>>

\* The orders in which a listing may return the snapshots of q.
RECURSIVE Orders(_)
Orders(q) ==
    IF q = <<>> THEN {<<>>}
    ELSE UNION {{SubSeq(o, 1, k) \o <<Head(q)>> \o SubSeq(o, k + 1, Len(o)) :
                    k \in 0..Len(o)} : o \in Orders(Tail(q))}

\* The loop over the listing of updateResticMetrics: count per name, and the
\* size and time of the snapshot the listing returns last for the name.
RECURSIVE FoldSnapshots(_, _)
FoldSnapshots(acc, listing) ==
    IF listing = <<>> THEN acc
    ELSE LET s == Head(listing)
         IN FoldSnapshots(
                [acc EXCEPT !.count = VecInc(@, s.Name),
                            !.latestSize = VecSet(@, s.Name, s.Size),
                            !.latestTime = VecSet(@, s.Name, s.Time),
                            !.remaining = @ \cup {s.Name}],
                Tail(listing))

\* The maps of updateResticMetrics before the loop: zero for every configured name.
ZeroMaps ==
    [count |-> [n \in ConfigNames |-> 0], totalSize |-> [n \in ConfigNames |-> 0],
     latestSize |-> [n \in ConfigNames |-> 0], latestTime |-> [n \in ConfigNames |-> 0],
     remaining |-> {}]

\* The last loop of updateResticMetrics after a Reset() of the vectors it sets.
RECURSIVE SetAllResticStats_Reset(_, _, _)
SetAllResticStats_Reset(mm, u, names) ==
    IF names = {} THEN mm
    ELSE LET n == CHOOSE x \in names : TRUE
             cleared == IF names = DOMAIN u.count
                        THEN [mm EXCEPT !.resticSnapshotCount = NoSeries,
                                        !.resticSnapshotTotalSize = NoSeries,
                                        !.resticSnapshotLatestSize = NoSeries,
                                        !.resticSnapshotLatestTimestamp = NoSeries]
                        ELSE mm
         IN SetAllResticStats_Reset(
                SetResticStatsByBackupName(cleared, n, u.count[n], Val(u.totalSize, n),
                                           Val(u.latestSize, n), Val(u.latestTime, n)),
                u, names \ {n})

\* The last loop of updateResticMetrics: the gauges of every name of count.
RECURSIVE SetAllResticStats(_, _, _)
SetAllResticStats(mm, u, names) ==
    IF names = {} THEN mm
    ELSE LET n == CHOOSE x \in names : TRUE
         IN SetAllResticStats(
                SetResticStatsByBackupName(mm, n, u.count[n], Val(u.totalSize, n),
                                           Val(u.latestSize, n), Val(u.latestTime, n)),
                u, names \ {n})

\* restic stats --tag name=<name>: the size of the snapshots carrying the tag.
RECURSIVE StatsTotalSize(_, _)
StatsTotalSize(q, name) ==
    IF q = <<>> THEN 0
    ELSE (IF Head(q).Name = name THEN Head(q).Size ELSE 0) + StatsTotalSize(Tail(q), name)

\* The export going on to the object-store reconciliation after its listing
\* failed, every other task function returning.
TaskReturns_ExportReconciles ==
    IF job = "S3Backup" /\ pc = "listLatest"
    THEN /\ pc' = "listObjects"
         /\ urm' = NoUrm
         /\ UNCHANGED job
    ELSE /\ job' = "none"
         /\ pc' = "idle"
         /\ urm' = NoUrm

\* The task function returns.
TaskReturns ==
    /\ job' = "none"
    /\ pc' = "idle"
    /\ urm' = NoUrm

\* The task functions that call updateResticMetrics.
ResticMetricsCallers == {"Backup", "ForgetAndPrune", "UpdateAllMetrics"}

\* The refresh going on to updateS3Metrics whatever updateResticMetrics returned.
ResticMetricsReturns_Continue(ok) ==
    IF job = "UpdateAllMetrics"
    THEN /\ pc' = "listObjects"
         /\ urm' = NoUrm
         /\ UNCHANGED job
    ELSE TaskReturns

\* The refresh testing the error of updateResticMetrics the wrong way round: it
\* returns after a success and goes on to updateS3Metrics after a failure.
ResticMetricsReturns_Inverted(ok) ==
    IF job = "UpdateAllMetrics" /\ ~ok
    THEN /\ pc' = "listObjects"
         /\ urm' = NoUrm
         /\ UNCHANGED job
    ELSE TaskReturns

\* updateResticMetrics returns nil (ok) or an error to its caller: Backup and
\* ForgetAndPrune log the error and return, UpdateAllMetrics returns the error
\* or goes on to updateS3Metrics.
ResticMetricsReturns(ok) ==
    IF job = "UpdateAllMetrics" /\ ok
    THEN /\ pc' = "listObjects"
         /\ urm' = NoUrm
         /\ UNCHANGED job
    ELSE TaskReturns

\* updateResticMetrics: r.ListSnapshots(), then the fold of the listing.
ListSnapshots ==
    /\ job \in ResticMetricsCallers
    /\ pc = "list"
    /\ callLog' = Append(callLog, <<"list", "">>)
    /\ \E ok \in BOOLEAN :
        IF ok
        THEN \E listing \in Orders(repo) :
                LET u == FoldSnapshots(ZeroMaps, listing)
                IN IF u.remaining = {}
                   THEN /\ m' = SetAllResticStats(m, u, DOMAIN u.count)
                        /\ ResticMetricsReturns(TRUE)
                   ELSE /\ urm' = u
                        /\ pc' = "stats"
                        /\ UNCHANGED <<m, job>>
        ELSE /\ m' = AddSchedulerError(m, "restic_list_snapshots")
             /\ ResticMetricsReturns(FALSE)
    /\ UNCHANGED <<Backups, latest, bucket, repo, clock, idx, runs, outcome>>
    /\ UNCHANGED <<libVars, bootVars, schedVars, pipeVars>>

\* updateResticMetrics: r.GetSnapshotStatsByName(name) for the next name of the
\* map, in the map's order; after the last one the gauges are set.
GetSnapshotStatsByName ==
    /\ job \in ResticMetricsCallers
    /\ pc = "stats"
    /\ \E name \in urm.remaining :
        /\ callLog' = Append(callLog, <<"stats", name>>)
        /\ \E ok \in BOOLEAN :
            IF ok
            THEN LET u == [urm EXCEPT !.totalSize = VecSet(@, name, Val(@, name) + StatsTotalSize(repo, name)),
                                      !.remaining = @ \ {name}]
                 IN IF u.remaining = {}
                    THEN /\ m' = SetAllResticStats(m, u, DOMAIN u.count)
                         /\ ResticMetricsReturns(TRUE)
                    ELSE /\ urm' = u
                         /\ UNCHANGED <<m, job, pc>>
            ELSE /\ m' = AddSchedulerError(m, "restic_get_snapshot_stats")
                 /\ ResticMetricsReturns(FALSE)
    /\ UNCHANGED <<Backups, latest, bucket, repo, clock, idx, runs, outcome>>
    /\ UNCHANGED <<libVars, bootVars, schedVars, pipeVars>>

BackupNext ==
    \/ BackupBegin
    \/ PreCommand
    \/ BackupDirectory
    \/ PostCommand
    \/ ListSnapshots
    \/ GetSnapshotStatsByName

(***************************************************************************)
(* task.S3Backup and updateS3Metrics                                       *)
(***************************************************************************)

\* A mutant of the export error counter: the failure is not counted.
AddS3ErrorByBackupName_Dropped(mm, name) == mm

AddS3ErrorByBackupName(mm, name) ==
    [mm EXCEPT !.s3SnapshotErrors = VecInc(@, name)]

\* The setter with the total size written to the latest-size gauge too.
SetS3StatsByBackupName_TotalAsLatest(mm, name, count, totalSize, latestSize, latestTime) ==
    [mm EXCEPT !.s3SnapshotCount = VecSet(@, name, count),
               !.s3SnapshotTotalSize = VecSet(@, name, totalSize),
               !.s3SnapshotLatestSize = VecSet(@, name, totalSize),
               !.s3SnapshotLatestTimestamp = VecSet(@, name, latestTime)]

SetS3StatsByBackupName(mm, name, count, totalSize, latestSize, latestTime) ==
    [mm EXCEPT !.s3SnapshotCount = VecSet(@, name, count),
               !.s3SnapshotTotalSize = VecSet(@, name, totalSize),
               !.s3SnapshotLatestSize = VecSet(@, name, latestSize),
               !.s3SnapshotLatestTimestamp = VecSet(@, name, latestTime)]

\* As task.S3Backup calls it: the duration gauge of the export.
SetS3DurationByBackupName(mm, name, duration) ==
    [mm EXCEPT !.s3SnapshotLatestDuration = VecSet(@, name, duration)]

\* The names snapshots of the repository carry: the configured ones and one
\* that is not configured.
SnapshotNames == {UnitNames[i] : i \in 1..NumUnits + 1}

\* The repositories of n snapshots, numbered and timed in creation order.
RECURSIVE ReposOfLen(_)
ReposOfLen(n) ==
    IF n = 0 THEN {<<>>}
    ELSE {Append(q, [ID |-> n, Name |-> name, Time |-> n, Size |-> size]) :
            q \in ReposOfLen(n - 1), name \in SnapshotNames, size \in 1..MaxSize}

Repos == UNION {ReposOfLen(n) : n \in 0..MaxSnapshots}

\* The export job finds a repository some backups have filled.
ExportInit ==
    /\ Backups = [i \in 1..NumUnits |-> [Name |-> UnitNames[i], PreCommand |-> "", PostCommand |-> ""]]
    /\ m = NewMetrics
    /\ repo \in Repos
    /\ clock = MaxSnapshots + 1
    /\ job = "none"
    /\ pc = "idle"
    /\ idx = 0
    /\ runs = 0
    /\ outcome = [i \in 1..NumUnits |-> "pending"]
    /\ callLog = <<>>
    /\ urm = NoUrm
    /\ latest = <<>>
    /\ bucket = <<>>

\* restic snapshots --latest=1: of every group of snapshots the newest one.
\* restic groups by host and paths, which the resolved name does not fix, so a
\* listing is any set of snapshots that holds, for every snapshot it leaves
\* out, a newer one: it may hold several snapshots of one name and none of
\* another.
LatestOf(q) ==
    {S \in SUBSET {q[i] : i \in 1..Len(q)} :
        \A i \in 1..Len(q) : q[i] \notin S => \E t \in S : t.Time > q[i].Time}

NoSnapshot == [ID |-> 0, Name |-> "", Time |-> 0, Size |-> 0]

\* The inner loop of S3Backup without its break: the last snapshot of the
\* listing whose name is the unit's.
RECURSIVE FindSnapshot_NoBreak(_, _)
FindSnapshot_NoBreak(listing, name) ==
    IF listing = <<>> THEN NoSnapshot
    ELSE LET later == FindSnapshot_NoBreak(Tail(listing), name)
         IN IF later.ID # 0 THEN later
            ELSE IF Head(listing).Name = name THEN Head(listing)
            ELSE NoSnapshot

\* The inner loop of S3Backup: the first snapshot of the listing whose name is
\* the unit's, or the zero Snapshot.
RECURSIVE FindSnapshot(_, _)
FindSnapshot(listing, name) ==
    IF listing = <<>> THEN NoSnapshot
    ELSE IF Head(listing).Name = name THEN Head(listing)
    ELSE FindSnapshot(Tail(listing), name)

\* The key createAndUploadEncryptedDump uploads the snapshot to.
ObjectKey(name) == name \o ".tar.gz.age"

\* The name taken as the key up to its first dot.
BackupNameOfKey_UpToFirstDot(key) ==
    LET dots == {i \in 1..Len(key) : SubSeq(key, i, i) = "."}
    IN IF dots = {} THEN key
       ELSE SubSeq(key, 1, (CHOOSE i \in dots : \A k \in dots : i <= k) - 1)

\* strings.TrimSuffix(obj.Key, ".tar.gz.age")
BackupNameOfKey(key) ==
    LET suffix == ".tar.gz.age"
    IN IF Len(key) >= Len(suffix) /\ SubSeq(key, Len(key) - Len(suffix) + 1, Len(key)) = suffix
       THEN SubSeq(key, 1, Len(key) - Len(suffix))
       ELSE key

\* PutObject on the versioned bucket: a new version of the key, the latest one.
PutObject(b, key, size, time) ==
    [i \in 1..Len(b) |-> IF b[i].Key = key THEN [b[i] EXCEPT !.IsLatest = FALSE] ELSE b[i]]
        \o <<[Key |-> key, Size |-> size, IsLatest |-> TRUE, CreatedAt |-> time]>>

\* What one call of createAndUploadEncryptedDump returns and what its upload
\* stored: no version when the call ended before or in the upload, the whole
\* archive, or an archive the producer left incomplete.
DumpOutcomes ==
    {<<"mkdirErr", "none">>, <<"restoreErr", "none">>, <<"uploadErr", "none">>,
     <<"archiveErr", "truncated">>, <<"ok", "complete">>, <<"ok", "truncated">>}

\* task.S3Backup is called, once.
S3BackupBegin ==
    /\ job = "none"
    /\ runs = 0
    /\ job' = "S3Backup"
    /\ runs' = runs + 1
    /\ idx' = 0
    /\ pc' = "listLatest"
    /\ outcome' = [i \in 1..NumUnits |-> "pending"]
    /\ callLog' = <<>>
    /\ latest' = <<>>
    /\ UNCHANGED <<Backups, m, repo, clock, urm, bucket>>
    /\ UNCHANGED <<libVars, bootVars, schedVars, pipeVars>>

\* The loop of S3Backup left for the reconciliation after its first pass.
ExportEntry_RefreshEarly(i) == "listObjects"

\* Where the loop of S3Backup goes on after unit i - 1.
ExportEntry(i) == IF i > Len(Backups) THEN "listObjects" ELSE "export"

\* r.ListLatestSnapshots(): on an error the run ends.
ListLatestSnapshots ==
    /\ job = "S3Backup"
    /\ pc = "listLatest"
    /\ callLog' = Append(callLog, <<"listLatest", "">>)
    /\ \E ok \in BOOLEAN :
        IF ok
        THEN /\ \E S \in LatestOf(repo) : \E listing \in Orders(SetToSeq(S)) :
                    latest' = listing
             /\ idx' = 1
             /\ pc' = ExportEntry(1)
             /\ UNCHANGED <<m, job, urm, outcome>>
        ELSE /\ m' = AddSchedulerError(m, "restic_list_snapshots")
             /\ outcome' = [i \in 1..NumUnits |-> "aborted"]
             /\ TaskReturns
             /\ UNCHANGED <<latest, idx>>
    /\ UNCHANGED <<Backups, repo, clock, runs, bucket>>
    /\ UNCHANGED <<libVars, bootVars, schedVars, pipeVars>>

\* The unit at idx failed: its export error counter is incremented and the
\* loop continues.
ExportFails(how) ==
    /\ m' = AddS3ErrorByBackupName(m, Backups[idx].Name)
    /\ outcome' = [outcome EXCEPT ![idx] = how]
    /\ idx' = idx + 1
    /\ pc' = ExportEntry(idx + 1)

\* One pass of the loop of S3Backup: the unit's snapshot is looked up in the
\* listing and createAndUploadEncryptedDump is called with it.
ExportUnit ==
    /\ job = "S3Backup"
    /\ pc = "export"
    /\ LET snapshot == FindSnapshot(latest, Backups[idx].Name)
       IN IF snapshot.ID = 0
          THEN /\ ExportFails("noSnapshot")
               /\ UNCHANGED <<bucket, clock, callLog>>
          ELSE /\ callLog' = Append(callLog, <<"dump", snapshot.ID>>)
               /\ \E o \in DumpOutcomes :
                    /\ IF o[2] = "none"
                       THEN UNCHANGED <<bucket, clock>>
                       ELSE /\ \E size \in 1..MaxSize :
                                bucket' = PutObject(bucket, ObjectKey(snapshot.Name), size, clock)
                            /\ clock' = clock + 1
                    /\ IF o[1] # "ok"
                       THEN ExportFails(o[1])
                       ELSE /\ \E d \in 1..MaxDuration :
                                m' = SetS3DurationByBackupName(m, Backups[idx].Name, d)
                            /\ outcome' = [outcome EXCEPT ![idx] = "ok"]
                            /\ idx' = idx + 1
                            /\ pc' = ExportEntry(idx + 1)
    /\ UNCHANGED <<Backups, repo, job, runs, urm, latest>>
    /\ UNCHANGED <<libVars, bootVars, schedVars, pipeVars>>

\* The loops of updateS3Metrics over the listing: per derived name the number
\* of versions, their size, and the size and time of the version flagged latest.
RECURSIVE FoldObjects(_, _)
FoldObjects(acc, listing) ==
    IF listing = <<>> THEN acc
    ELSE LET o == Head(listing)
             name == BackupNameOfKey(o.Key)
         IN FoldObjects(
                [acc EXCEPT !.count = VecInc(@, name),
                            !.totalSize = VecSet(@, name, Val(@, name) + o.Size),
                            !.latestSize = IF o.IsLatest THEN VecSet(@, name, o.Size)
                                           ELSE VecSet(@, name, Val(@, name)),
                            !.latestTime = IF o.IsLatest THEN VecSet(@, name, o.CreatedAt)
                                           ELSE VecSet(@, name, Val(@, name))],
                Tail(listing))

\* The last loop of updateS3Metrics: the gauges of every name of count.
RECURSIVE SetAllS3Stats(_, _, _)
SetAllS3Stats(mm, u, names) ==
    IF names = {} THEN mm
    ELSE LET n == CHOOSE x \in names : TRUE
         IN SetAllS3Stats(
                SetS3StatsByBackupName(mm, n, u.count[n], u.totalSize[n],
                                       u.latestSize[n], u.latestTime[n]),
                u, names \ {n})

\* updateS3Metrics: s.ListObjects(), which lists every version of the bucket,
\* and the gauges set from the listing.
ListObjects ==
    /\ job \in {"S3Backup", "UpdateAllMetrics"}
    /\ pc = "listObjects"
    /\ callLog' = Append(callLog, <<"listObjects", "">>)
    /\ \E ok \in BOOLEAN :
        IF ok
        THEN LET u == FoldObjects(ZeroMaps, bucket)
             IN m' = SetAllS3Stats(m, u, DOMAIN u.count)
        ELSE m' = AddSchedulerError(m, "s3_list_objects")
    /\ TaskReturns
    /\ UNCHANGED <<Backups, repo, clock, idx, runs, outcome, latest, bucket>>
    /\ UNCHANGED <<libVars, bootVars, schedVars, pipeVars>>

ExportNext ==
    \/ S3BackupBegin
    \/ ListLatestSnapshots
    \/ ExportUnit
    \/ ListObjects

(***************************************************************************)
(* task.UpdateAllMetrics                                                   *)
(***************************************************************************)

\* The keys objects of the bucket carry: the export keys of the snapshot
\* names and one key that no export wrote.
BucketKeys == {ObjectKey(n) : n \in SnapshotNames} \cup {"notes.txt"}

\* The listings of n object versions, timed in creation order.
RECURSIVE BucketsOfLen(_)
BucketsOfLen(n) ==
    IF n = 0 THEN {<<>>}
    ELSE {Append(b, [Key |-> key, Size |-> size, IsLatest |-> l, CreatedAt |-> n]) :
            b \in BucketsOfLen(n - 1), key \in BucketKeys, size \in 1..MaxSize, l \in BOOLEAN}

\* The store flags at most one version of a key as the latest.
AtMostOneLatest(b) ==
    \A i, j \in 1..Len(b) : (b[i].Key = b[j].Key /\ b[i].IsLatest /\ b[j].IsLatest) => i = j

\* The metrics job finds a repository and a bucket that earlier jobs, or
\* other programs, have filled: MaxSnapshots snapshots and versions in all.
MetricsInit ==
    /\ Backups = [i \in 1..NumUnits |-> [Name |-> UnitNames[i], PreCommand |-> "", PostCommand |-> ""]]
    /\ m = NewMetrics
    /\ \E n \in 0..MaxSnapshots : \E k \in 0..(MaxSnapshots - n) :
        /\ repo \in ReposOfLen(n)
        /\ bucket \in {b \in BucketsOfLen(k) : AtMostOneLatest(b)}
    /\ clock = MaxSnapshots + 1
    /\ job = "none"
    /\ pc = "idle"
    /\ idx = 0
    /\ runs = 0
    /\ outcome = [i \in 1..NumUnits |-> "pending"]
    /\ callLog = <<>>
    /\ urm = NoUrm
    /\ latest = <<>>

\* task.UpdateAllMetrics is called: it calls updateResticMetrics.
UpdateAllMetricsBegin ==
    /\ job = "none"
    /\ runs < MaxRuns
    /\ job' = "UpdateAllMetrics"
    /\ runs' = runs + 1
    /\ idx' = 0
    /\ pc' = "list"
    /\ outcome' = [i \in 1..NumUnits |-> "pending"]
    /\ callLog' = <<>>
    /\ UNCHANGED <<Backups, m, repo, clock, urm, latest, bucket>>
    /\ UNCHANGED <<libVars, bootVars, schedVars, pipeVars>>

MetricsNext ==
    \/ UpdateAllMetricsBegin
    \/ ListSnapshots
    \/ GetSnapshotStatsByName
    \/ ListObjects

(***************************************************************************)
(* task.ResticCheck and task.ForgetAndPrune                                *)
(***************************************************************************)
\* task.ResticCheck is called: r.Check() is next.
ResticCheckBegin ==
    /\ job = "none"
    /\ runs < MaxRuns
    /\ job' = "ResticCheck"
    /\ runs' = runs + 1
    /\ pc' = "check"
    /\ callLog' = <<>>
    /\ UNCHANGED <<Backups, m, repo, clock, idx, outcome, urm, latest, bucket>>
    /\ UNCHANGED <<libVars, bootVars, schedVars, pipeVars>>

\* r.Check(): an error is counted; the function returns either way.
Check ==
    /\ job = "ResticCheck"
    /\ pc = "check"
    /\ callLog' = Append(callLog, <<"check", "">>)
    /\ \E ok \in BOOLEAN :
          m' = IF ok THEN m ELSE AddSchedulerError(m, "restic_check")
    /\ TaskReturns
    /\ UNCHANGED <<Backups, repo, clock, idx, runs, outcome, latest, bucket>>
    /\ UNCHANGED <<libVars, bootVars, schedVars, pipeVars>>

\* task.ForgetAndPrune is called: r.ForgetAndPrune(...) is next.
ForgetAndPruneBegin ==
    /\ job = "none"
    /\ runs < MaxRuns
    /\ job' = "ForgetAndPrune"
    /\ runs' = runs + 1
    /\ pc' = "prune"
    /\ callLog' = <<>>
    /\ UNCHANGED <<Backups, m, repo, clock, idx, outcome, urm, latest, bucket>>
    /\ UNCHANGED <<libVars, bootVars, schedVars, pipeVars>>

\* What `restic forget --prune` may leave of repository q: some of its
\* snapshots, in their order.
RECURSIVE KeptSnapshots(_)
KeptSnapshots(q) ==
    IF q = <<>> THEN {<<>>}
    ELSE LET rest == KeptSnapshots(Tail(q))
         IN  rest \cup {<<Head(q)>> \o k : k \in rest}

\* r.ForgetAndPrune(...): an error is counted; updateResticMetrics is called
\* either way.
ForgetAndPrune ==
    /\ job = "ForgetAndPrune"
    /\ pc = "prune"
    /\ callLog' = Append(callLog, <<"prune", "">>)
    /\ \E ok \in BOOLEAN :
          IF ok
          THEN /\ repo' \in KeptSnapshots(repo)
               /\ m' = m
          ELSE /\ repo' = repo
               /\ m' = AddSchedulerError(m, "restic_forget_and_prune")
    /\ pc' = "list"
    /\ UNCHANGED <<Backups, clock, job, idx, runs, outcome, urm, latest, bucket>>
    /\ UNCHANGED <<libVars, bootVars, schedVars, pipeVars>>

MaintenanceNext ==
    \/ ResticCheckBegin
    \/ Check
    \/ ForgetAndPruneBegin
    \/ ForgetAndPrune
    \/ ListSnapshots
    \/ GetSnapshotStatsByName

(***************************************************************************)
(* A refresh after snapshots and objects were removed                      *)
(***************************************************************************)
\* The metrics after updateResticMetrics ran without an error over repository
\* q, listed in creation order.
AfterResticPass(mm, q) ==
    LET u0 == FoldSnapshots(ZeroMaps, q)
        u  == [u0 EXCEPT !.totalSize =
                    [n \in DOMAIN u0.count |->
                        IF n \in u0.remaining THEN StatsTotalSize(q, n) ELSE 0]]
    IN SetAllResticStats(mm, u, DOMAIN u.count)

\* The metrics after updateS3Metrics ran without an error over bucket b.
AfterS3Pass(mm, b) ==
    LET u == FoldObjects(ZeroMaps, b)
    IN SetAllS3Stats(mm, u, DOMAIN u.count)

\* Bucket b after every version of the keys K was deleted.
RECURSIVE WithoutKeys(_, _)
WithoutKeys(b, K) ==
    IF b = <<>> THEN <<>>
    ELSE (IF Head(b).Key \in K THEN <<>> ELSE <<Head(b)>>) \o WithoutKeys(Tail(b), K)

\* A refresh ran without an error over a repository and a bucket; since then
\* `restic forget` removed some snapshots and some objects were deleted with
\* all their versions.
StaleInit ==
    /\ Backups = [i \in 1..NumUnits |-> [Name |-> UnitNames[i], PreCommand |-> "", PostCommand |-> ""]]
    /\ \E n \in 0..MaxSnapshots : \E k \in 0..(MaxSnapshots - n) :
        \E q \in ReposOfLen(n) : \E b \in {x \in BucketsOfLen(k) : AtMostOneLatest(x)} :
            /\ m = AfterS3Pass(AfterResticPass(NewMetrics, q), b)
            /\ repo \in KeptSnapshots(q)
            /\ bucket \in {WithoutKeys(b, K) : K \in SUBSET BucketKeys}
    /\ clock = MaxSnapshots + 1
    /\ job = "none"
    /\ pc = "idle"
    /\ idx = 0
    /\ runs = 0
    /\ outcome = [i \in 1..NumUnits |-> "pending"]
    /\ callLog = <<>>
    /\ urm = NoUrm
    /\ latest = <<>>

(***************************************************************************)
(* Helper functions, called on their own: snapshotJson.GetName             *)
(* (internal/restic/restic.go)                                             *)
(***************************************************************************)

\* strings.HasPrefix(s, prefix)
HasPrefix(s, prefix) ==
    Len(s) >= Len(prefix) /\ SubSeq(s, 1, Len(prefix)) = prefix

\* strings.TrimPrefix(s, prefix)
TrimPrefix(s, prefix) ==
    IF HasPrefix(s, prefix) THEN SubSeq(s, Len(prefix) + 1, Len(s)) ELSE s

\* The loop of GetName over s.Tags from tag i on.
RECURSIVE GetNameFrom(_, _)
GetNameFrom(s, i) ==
    IF i > Len(s.Tags) THEN s.ID
    ELSE IF HasPrefix(s.Tags[i], "name=") THEN TrimPrefix(s.Tags[i], "name=")
    ELSE GetNameFrom(s, i + 1)

\* The loop going on after a match, so that the last matching tag decides.
RECURSIVE GetNameFromLast(_, _)
GetNameFromLast(s, i) ==
    IF i < 1 THEN s.ID
    ELSE IF HasPrefix(s.Tags[i], "name=") THEN TrimPrefix(s.Tags[i], "name=")
    ELSE GetNameFromLast(s, i - 1)

GetName_LastTag(s) == GetNameFromLast(s, Len(s.Tags))

\* func (s snapshotJson) GetName() string
GetName(s) == GetNameFrom(s, 1)

\* The tags restic may report for a snapshot: name tags, one of them empty,
\* and tags that are no name tags.
TagValues == {"name=db", "name=www", "name=", "host=db", "xname=db"}

\* The tag lists of n tags.
RECURSIVE TagsOfLen(_)
TagsOfLen(n) ==
    IF n = 0 THEN {<<>>}
    ELSE {Append(t, v) : t \in TagsOfLen(n - 1), v \in TagValues}

\* The snapshots as `restic snapshots --json` reports them.
SnapshotJsons ==
    [ID : {"4f2a", "name=9c1e"}, Tags : UNION {TagsOfLen(n) : n \in 0..MaxTags}]

\* func (s snapshotJson) ToInternalSnapshot() Snapshot
ToInternalSnapshot ==
    /\ libArg.fn = "ToInternalSnapshot"
    /\ libRes.fn = "none"
    /\ libRes' = [fn |-> "ToInternalSnapshot", Name |-> GetName(libArg.s),
                  ID |-> libArg.s.ID, Tags |-> libArg.s.Tags]
    /\ UNCHANGED <<libArg, bootVars, schedVars, pipeVars, taskVars>>

\* The names a backup unit may be configured with, among them names that end
\* in the archive suffix or in a part of it.
BackupNames == {"db", "", "db.tar.gz.age", ".tar.gz.age", "db.tar.gz", "www.age", "a.b"}

\* The export of a snapshot named libArg.name into an empty bucket
\* (s3.StreamUploadFile(snapshot.Name+".tar.gz.age", pr)) and the listing of
\* the bucket after it (S3.ListObjects): the key and the BackupName of the
\* S3Object listed.
UploadAndList ==
    /\ libArg.fn = "UploadAndList"
    /\ libRes.fn = "none"
    /\ LET b == PutObject(<<>>, ObjectKey(libArg.name), 1, 1)
       IN libRes' = [fn |-> "UploadAndList", Key |-> b[1].Key,
                     BackupName |-> BackupNameOfKey(b[1].Key)]
    /\ UNCHANGED <<libArg, bootVars, schedVars, pipeVars, taskVars>>

(***************************************************************************)
(* utils.WriteDirectoryToTar and utils.ExtractTar (internal/utils/utils.go) *)
(* A path is the sequence of its names below the root, a directory tree a  *)
(* function from its paths to [kind, content, target]. The process runs as *)
(* root (the image sets no user), so no mode denies it access.             *)
(***************************************************************************)

\* The names of directory entries, in the lexical order of filepath.Walk.
EntryNames == <<"a", "b">>

\* What a path may hold: a directory, a regular file with its content, a
\* symlink with its target.
Entries ==
    {[kind |-> "dir", content |-> "", target |-> ""]}
        \cup {[kind |-> "file", content |-> c, target |-> ""] : c \in {"", "x"}}
        \cup {[kind |-> "symlink", content |-> "", target |-> t] : t \in {"a", "../b"}}

Parent(p) == SubSeq(p, 1, Len(p) - 1)

\* The places of tree D where one more entry fits: below the root or below
\* one of D's directories.
FreePaths(D) ==
    {Append(q, EntryNames[i]) :
        q \in {<<>>} \cup {d \in DOMAIN D : D[d].kind = "dir"}, i \in DOMAIN EntryNames}
    \ DOMAIN D

\* The directory trees of n entries.
RECURSIVE TreesOfSize(_)
TreesOfSize(n) ==
    IF n = 0 THEN {<<>>}
    ELSE UNION {UNION {{[q \in DOMAIN D \cup {p} |-> IF q = p THEN e ELSE D[q]] :
                            e \in Entries} : p \in FreePaths(D)} :
                    D \in TreesOfSize(n - 1)}

Trees == UNION {TreesOfSize(n) : n \in 1..MaxEntries}

\* The header WriteDirectoryToTar writes for path p of D, with the content
\* written after it: tar.FileInfoHeader(info, link), header.Name = relPath.
HeaderOf_NoLink(D, p) ==
    [Name |-> p, Typeflag |-> D[p].kind, Linkname |-> "", Body |-> D[p].content]

HeaderOf(D, p) ==
    [Name |-> p, Typeflag |-> D[p].kind,
     Linkname |-> IF D[p].kind = "symlink" THEN D[p].target ELSE "",
     Body |-> IF D[p].kind = "file" THEN D[p].content ELSE ""]

\* filepath.Walk below directory dir, from its i-th name on: every entry in
\* lexical order, a directory before what it holds, symlinks not followed.
RECURSIVE Walk(_, _, _)
Walk(D, dir, i) ==
    IF i > Len(EntryNames) THEN <<>>
    ELSE LET p == Append(dir, EntryNames[i])
         IN (IF p \in DOMAIN D
             THEN <<HeaderOf(D, p)>> \o (IF D[p].kind = "dir" THEN Walk(D, p, 1) ELSE <<>>)
             ELSE <<>>)
            \o Walk(D, dir, i + 1)

\* os.MkdirAll(p): the missing directories down to p are created; the call
\* fails where a path on the way is no directory.
RECURSIVE MkdirAll(_, _)
MkdirAll(x, p) ==
    IF p = <<>> THEN x
    ELSE IF p \in DOMAIN x.fs
         THEN (IF x.fs[p].kind = "dir" THEN x ELSE [x EXCEPT !.err = "mkdirError"])
         ELSE LET y == MkdirAll(x, Parent(p))
              IN IF y.err # "nil" THEN y
                 ELSE [y EXCEPT !.fs = [q \in DOMAIN y.fs \cup {p} |->
                            IF q = p THEN [kind |-> "dir", content |-> "", target |-> ""]
                            ELSE y.fs[q]]]

\* One pass of the loop of ExtractTar, for header h.
ExtractEntry(x, h) ==
    IF h.Typeflag = "dir" THEN MkdirAll(x, h.Name)
    ELSE LET y == MkdirAll(x, Parent(h.Name))
         IN IF y.err # "nil" THEN y
            ELSE IF h.Typeflag = "file"
            THEN (IF h.Name \in DOMAIN y.fs /\ y.fs[h.Name].kind # "file"
                  THEN [y EXCEPT !.err = "createError"]
                  ELSE [y EXCEPT !.fs = [q \in DOMAIN y.fs \cup {h.Name} |->
                            IF q = h.Name
                            THEN [kind |-> "file", content |-> h.Body, target |-> ""]
                            ELSE y.fs[q]]])
            ELSE IF h.Typeflag = "symlink"
            THEN (IF h.Name \in DOMAIN y.fs
                  THEN [y EXCEPT !.err = "symlinkError"]
                  ELSE [y EXCEPT !.fs = [q \in DOMAIN y.fs \cup {h.Name} |->
                            IF q = h.Name
                            THEN [kind |-> "symlink", content |-> "", target |-> h.Linkname]
                            ELSE y.fs[q]]])
            ELSE y

\* The loop of ExtractTar over the stream: it returns at the first error.
RECURSIVE ExtractFrom(_, _)
ExtractFrom(x, stream) ==
    IF stream = <<>> \/ x.err # "nil" THEN x
    ELSE ExtractFrom(ExtractEntry(x, Head(stream)), Tail(stream))

\* func WriteDirectoryToTar(w *tar.Writer, src string) error
WriteDirectoryToTar ==
    /\ libArg.fn = "WriteDirectoryToTar"
    /\ libRes.fn = "none"
    /\ libRes' = [fn |-> "WriteDirectoryToTar", stream |-> Walk(libArg.D, <<>>, 1)]
    /\ UNCHANGED <<libArg, bootVars, schedVars, pipeVars, taskVars>>

\* func ExtractTar(r io.Reader, dest string) error, on the stream written and
\* into a destination that does not exist yet.
ExtractTar ==
    /\ libRes.fn = "WriteDirectoryToTar"
    /\ LET x == ExtractFrom([fs |-> <<>>, err |-> "nil"], libRes.stream)
       IN libRes' = [fn |-> "ExtractTar", fs |-> x.fs, err |-> x.err]
    /\ UNCHANGED <<libArg, bootVars, schedVars, pipeVars, taskVars>>

(***************************************************************************)
(* The gauge setters of Metrics (internal/metrics/metrics.go), two calls   *)
(* in a row on a new registry.                                             *)
(***************************************************************************)

\* The gauge vectors each setter writes, in the order of its arguments.
GaugesOf ==
    [SetResticStatsByBackupName |->
        <<"resticSnapshotCount", "resticSnapshotTotalSize",
          "resticSnapshotLatestSize", "resticSnapshotLatestTimestamp">>,
     SetResticDurationByBackupName |-> <<"resticSnapshotLatestDuration">>,
     SetS3StatsByBackupName |->
        <<"s3SnapshotCount", "s3SnapshotTotalSize",
          "s3SnapshotLatestSize", "s3SnapshotLatestTimestamp">>,
     SetS3DurationByBackupName |-> <<"s3SnapshotLatestDuration">>]

\* The backup names the setters are called with.
LabelValues == {UnitNames[i] : i \in 1..NumUnits}

\* The calls of the setters: a backup name and a value for each gauge.
SetterCalls ==
    UNION {[setter : {s}, name : LabelValues, v : [DOMAIN GaugesOf[s] -> {0, 1}]] :
            s \in DOMAIN GaugesOf}

\* The call c made on registry mm.
CallSetter(mm, c) ==
    CASE c.setter = "SetResticStatsByBackupName" ->
            SetResticStatsByBackupName(mm, c.name, c.v[1], c.v[2], c.v[3], c.v[4])
      [] c.setter = "SetResticDurationByBackupName" ->
            SetResticDurationByBackupName(mm, c.name, c.v[1])
      [] c.setter = "SetS3StatsByBackupName" ->
            SetS3StatsByBackupName(mm, c.name, c.v[1], c.v[2], c.v[3], c.v[4])
      [] c.setter = "SetS3DurationByBackupName" ->
            SetS3DurationByBackupName(mm, c.name, c.v[1])

\* The first of the two calls.
FirstSet ==
    /\ libArg.fn = "SetGauges"
    /\ libRes.fn = "none"
    /\ LET m1 == CallSetter(NewMetrics, libArg.calls[1])
       IN libRes' = [fn |-> "SetGauges", done |-> "first", before |-> NewMetrics, m |-> m1]
    /\ UNCHANGED <<libArg, bootVars, schedVars, pipeVars, taskVars>>

\* The second call, on the registry the first left.
SecondSet ==
    /\ libRes.fn = "SetGauges"
    /\ libRes.done = "first"
    /\ libRes' = [fn |-> "SetGauges", done |-> "second", before |-> libRes.m,
                  m |-> CallSetter(libRes.m, libArg.calls[2])]
    /\ UNCHANGED <<libArg, bootVars, schedVars, pipeVars, taskVars>>

\* The calls of the helper functions and their arguments.
LibArgs ==
    {[fn |-> "ToInternalSnapshot", s |-> s] : s \in SnapshotJsons}
        \cup {[fn |-> "UploadAndList", name |-> n] : n \in BackupNames}
        \cup {[fn |-> "WriteDirectoryToTar", D |-> D] : D \in Trees}
        \cup {[fn |-> "SetGauges", calls |-> <<c1, c2>>] : c1, c2 \in SetterCalls}

LibInit ==
    /\ libArg \in LibArgs
    /\ libRes = [fn |-> "none"]

LibNext ==
    \/ ToInternalSnapshot
    \/ UploadAndList
    \/ WriteDirectoryToTar
    \/ ExtractTar
    \/ FirstSet
    \/ SecondSet

Serving ==
    \/ StartScheduler
    \/ \E j \in Jobs : Trigger(j)
    \/ \E r \in Runners : StartJob(r)
    \/ \E r \in Runners : BeginCall(r)
    \/ \E r \in Runners : EndCall(r)
    \/ \E r \in Runners : ReturnJob(r)

Next ==
    \/ StartScheduler
    \/ \E j \in Jobs : Trigger(j)
    \/ \E r \in Runners : StartJob(r)
    \/ \E r \in Runners : BeginCall(r)
    \/ \E r \in Runners : EndCall(r)
    \/ \E r \in Runners : ReturnJob(r)
    \/ Signal
    \/ ShutdownReturns
    \/ HttpShutdown
    \/ Exit

Init == LibIdle /\ BootDone /\ SchedInit /\ PipeIdle /\ TaskIdle

Spec == Init /\ [][Next]_vars

\* The serving scheduler with no termination signal: the runner takes queued
\* work, engine calls return and task functions run on.
FairSpec ==
    /\ Init
    /\ [][Serving]_vars
    /\ WF_vars(StartScheduler)
    /\ WF_vars(\E r \in Runners : StartJob(r))
    /\ WF_vars(\E r \in Runners : EndCall(r))
    /\ WF_vars(\E r \in Runners : BeginCall(r) \/ ReturnJob(r))

\* One call of createAndUploadEncryptedDump. Both goroutines are scheduled and
\* every external call returns: a step that stays possible is taken.
PipeSpecInit == LibIdle /\ BootDone /\ SchedInit /\ PipeInit /\ TaskIdle

PipeSpec ==
    /\ PipeSpecInit
    /\ [][PipeNext]_vars
    /\ WF_vars(PipeNext)

BackupSpecInit == LibIdle /\ BootDone /\ SchedInit /\ PipeIdle /\ TaskInit

\* Calls of task.Backup, one after the other.
BackupSpec == BackupSpecInit /\ [][BackupNext]_vars

ExportSpecInit == LibIdle /\ BootDone /\ SchedInit /\ PipeIdle /\ ExportInit

\* One call of task.S3Backup.
ExportSpec == ExportSpecInit /\ [][ExportNext]_vars

MetricsSpecInit == LibIdle /\ BootDone /\ SchedInit /\ PipeIdle /\ MetricsInit

\* Calls of task.UpdateAllMetrics, one after the other.
MetricsSpec == MetricsSpecInit /\ [][MetricsNext]_vars

MaintenanceSpecInit == LibIdle /\ BootDone /\ SchedInit /\ PipeIdle /\ MetricsInit

\* Calls of task.ResticCheck and task.ForgetAndPrune, one after the other.
MaintenanceSpec == MaintenanceSpecInit /\ [][MaintenanceNext]_vars

JobSpecInit == LibIdle /\ BootDone /\ SchedInit /\ PipeIdle /\ (TaskInit \/ ExportInit)

\* No task function is called after the first one returned.
OneCall == job # "none" \/ runs = 0

JobNext ==
    \/ OneCall /\ BackupBegin
    \/ OneCall /\ PreCommand
    \/ OneCall /\ BackupDirectory
    \/ OneCall /\ PostCommand
    \/ OneCall /\ S3BackupBegin
    \/ OneCall /\ ListLatestSnapshots
    \/ OneCall /\ ExportUnit
    \/ OneCall /\ ResticCheckBegin
    \/ OneCall /\ Check
    \/ OneCall /\ ForgetAndPruneBegin
    \/ OneCall /\ ForgetAndPrune
    \/ OneCall /\ UpdateAllMetricsBegin
    \/ OneCall /\ ListSnapshots
    \/ OneCall /\ GetSnapshotStatsByName
    \/ OneCall /\ ListObjects

\* One call of any of the five task functions.
JobSpec == JobSpecInit /\ [][JobNext]_vars

StaleSpecInit == LibIdle /\ BootDone /\ SchedInit /\ PipeIdle /\ StaleInit

StaleNext ==
    \/ OneCall /\ UpdateAllMetricsBegin
    \/ OneCall /\ ListSnapshots
    \/ OneCall /\ GetSnapshotStatsByName
    \/ OneCall /\ ListObjects

\* One call of task.UpdateAllMetrics after an earlier refresh and removals.
StaleSpec == StaleSpecInit /\ [][StaleNext]_vars

StartupSpecInit == LibIdle /\ BootInit /\ SchedInit /\ PipeIdle /\ TaskIdle

StartupNext ==
    \/ ConfigGet
    \/ OpenRepository
    \/ S3Get
    \/ NewJobs
    \/ Serving

\* main() from its first statement on, with no termination signal.
StartupSpec == StartupSpecInit /\ [][StartupNext]_vars

LibSpecInit == LibInit /\ BootDone /\ SchedInit /\ PipeIdle /\ TaskIdle

\* One call of one of the helper functions.
LibSpec == LibSpecInit /\ [][LibNext]_vars

(***************************************************************************)
(* Claims about the scheduler.                                             *)
(***************************************************************************)

\* C1: at most one scheduled job body executes at any time: two runs, of the
\* same or of different jobs, never overlap, so a run (and its first engine
\* call) starts only after every earlier run has returned.
C1_OneJobAtATime ==
    /\ \A r1, r2 \in Runners : (Busy(r1) /\ Busy(r2)) => r1 = r2
    /\ Sum(started) - Sum(finished) <= 1
    /\ \A r \in Runners : runner[r].pc = "engine" => Sum(started) = Sum(finished) + 1

\* A second run is inside an engine call after an earlier run returned, while
\* triggers of the running job and of another job wait in the queue.
C1_Witness ==
    \E r \in Runners :
        /\ runner[r].pc = "engine"
        /\ Sum(finished) >= 1
        /\ \E i, k \in 1..Len(queue) :
            queue[i] = runner[r].job /\ queue[k] # runner[r].job

\* C2: a trigger that fires while a job executes is queued, not dropped: every
\* fired trigger is queued, running or done, never run twice, and when job
\* runs terminate and no shutdown is requested the n-th trigger of a job leads
\* to the n-th completed run of that job.
C2_EveryTriggerRunsOnce ==
    /\ [](\A j \in Jobs :
            /\ fired[j] = started[j] + Count(j, queue)
            /\ finished[j] <= started[j])
    /\ \A j \in Jobs : \A n \in 1..MaxFired :
            (fired[j] >= n) ~> (finished[j] >= n)

\* A trigger fired while another job was executing has been run to completion.
C2_Witness ==
    \E j \in Jobs :
        /\ fired[j] = MaxFired
        /\ finished[j] = MaxFired
        /\ \E k \in Jobs \ {j} : finished[k] >= 1

\* C3 (as stated): once "scheduler stopped" has been reported, every job that
\* was in flight at the signal has returned, and none is cut short.
C3_StoppedOnlyAfterJobsReturned ==
    mainPc \in {"stopped", "httpDown", "exited"} =>
        \A r \in Runners : runner[r].pc = "idle"

(***************************************************************************)
(* Claims about the backup job and the export job.                         *)
(***************************************************************************)

\* The loop over the units of the current run is over.
LoopDone == runs >= 1 /\ pc \in {"list", "stats", "listObjects", "idle"}

\* The call of createAndUploadEncryptedDump returns and stores only what the
\* export job's step draws from.
PipeOutcomeInDumpOutcomes ==
    callerPc = "returned" => <<result, stored>> \in DumpOutcomes

\* C4: in a run of the backup job in which the pre-command of a unit A fails,
\* the failing step increments A's error counter by one and changes no other
\* unit's error counter, no scheduler error counter and no gauge, and goes on
\* with the next unit; when the loop is over every unit has been processed,
\* a unit B that went through has its snapshot and its duration gauge, and a
\* successful reconciliation at the end of the run sets B's count gauge.
C4_PreCommandFailureIsIsolated ==
    /\ [][(pc = "pre" /\ outcome'[idx] = "preFail") =>
            /\ m' = [m EXCEPT !.resticSnapshotErrors = m'.resticSnapshotErrors]
            /\ Val(m'.resticSnapshotErrors, Backups[idx].Name)
                    = Val(m.resticSnapshotErrors, Backups[idx].Name) + 1
            /\ \A n \in ConfigNames \ {Backups[idx].Name} :
                    /\ Val(m'.resticSnapshotErrors, n) = Val(m.resticSnapshotErrors, n)
                    /\ n \in DOMAIN m'.resticSnapshotErrors <=> n \in DOMAIN m.resticSnapshotErrors
            /\ idx' = idx + 1
            /\ repo' = repo]_vars
    /\ [](LoopDone /\ (\E a \in 1..Len(Backups) : outcome[a] = "preFail") =>
            \A b \in 1..Len(Backups) :
                /\ outcome[b] # "pending"
                /\ outcome[b] = "ok" =>
                    /\ Backups[b].Name \in DOMAIN m.resticSnapshotLatestDuration
                    /\ \E k \in 1..Len(repo) : repo[k].Name = Backups[b].Name)
    /\ [][(job = "Backup" /\ job' = "none" /\ m'.schedulerErrors = m.schedulerErrors) =>
            \A b \in 1..Len(Backups) :
                outcome[b] = "ok" => Val(m'.resticSnapshotCount, Backups[b].Name) >= 1]_vars

\* A finished run in which A's pre-command failed and B, after it, went
\* through and is counted.
C4_Witness ==
    /\ job = "none" /\ runs >= 1
    /\ outcome[1] = "preFail" /\ outcome[2] = "ok"
    /\ Val(m.resticSnapshotErrors, Backups[1].Name) = 1
    /\ Backups[2].Name \notin DOMAIN m.resticSnapshotErrors
    /\ Backups[2].Name \in DOMAIN m.resticSnapshotLatestDuration
    /\ Val(m.resticSnapshotCount, Backups[2].Name) = 1

C6_TmpDirRemovedOnReturn ==
    callerPc = "returned" =>
        /\ tmpDir # "exists"
        /\ result # "mkdirErr" => tmpDir = "removed"

\* The function returned the upload's error after the directory was created.
C6_Witness ==
    /\ callerPc = "returned"
    /\ result = "uploadErr"
    /\ tmpDir = "removed"
    /\ pipe.read > 0

\* C7 (as stated): once the conduit is open the producer eventually closes its
\* write side, and closes it exactly once; so while the write side is open
\* the call is never at a point from which no step is possible.
C7_WriteSideClosedOnce ==
    /\ [](pipe.wClosed <= 1)
    /\ []((pipe.open /\ pipe.wClosed = 0) => ENABLED PipeNext)
    /\ pipe.open ~> (pipe.wClosed = 1)

\* C8 (as stated): when the function returns after the upload call, it has
\* received the producer's outcome, and it returns the error of the side that
\* failed first.
C8_JoinsAndReturnsFirstError ==
    (callerPc = "returned" /\ pipe.open) =>
        /\ joined
        /\ firstError = "producer" => result = "archiveErr"
        /\ firstError = "upload" => result = "uploadErr"

\* C9 (as stated): the pipeline never returns success when a producer stage
\* failed, the final close of the compressor and of the encryptor included.
C9_StageFailureIsReturned ==
    (callerPc = "returned" /\ stageFailed # {}) => result \in {"archiveErr", "uploadErr"}

\* C10: the conduit buffers nothing: the bytes written and not yet read are
\* those of the one Write in progress, at most one write's worth, and a Write
\* that returned has been read completely.
C10_PipeHoldsAtMostOneWrite ==
    /\ pipe.offered - pipe.read = pipe.pending
    /\ pipe.pending <= ChunkSize
    /\ ~pipe.writing => pipe.pending = 0

\* After more than one write's worth of data went through, the producer is
\* blocked in a Write whose bytes the upload has not read yet.
C10_Witness ==
    /\ pipe.writing
    /\ pipe.pending = ChunkSize
    /\ pipe.read > ChunkSize
    /\ callerPc = "upload"

(***************************************************************************)
(* Claims about the metrics registry and the reconciliation passes.        *)
(***************************************************************************)

\* The vectors labelled by backup name.
PerBackupVectors ==
    {"resticSnapshotErrors", "resticSnapshotLatestDuration", "resticSnapshotLatestSize",
     "resticSnapshotLatestTimestamp", "resticSnapshotCount", "resticSnapshotTotalSize",
     "s3SnapshotErrors", "s3SnapshotLatestDuration", "s3SnapshotLatestSize",
     "s3SnapshotLatestTimestamp", "s3SnapshotCount", "s3SnapshotTotalSize"}

\* C11 (as stated): before any job has run, every gauge and every per-backup
\* error counter has a series of value zero for every configured backup name,
\* and the scheduler error counter has one of value zero for every operation
\* class.
C11_AllSeriesZeroAtStartup ==
    Sum(started) = 0 =>
        /\ \A v \in PerBackupVectors : \A n \in ConfigNames :
                n \in DOMAIN m[v] /\ m[v][n] = 0
        /\ \A op \in SchedulerErrors :
                op \in DOMAIN m.schedulerErrors /\ m.schedulerErrors[op] = 0

\* The gauges of the repository and of the export target.
ResticGauges ==
    {"resticSnapshotCount", "resticSnapshotTotalSize", "resticSnapshotLatestSize",
     "resticSnapshotLatestTimestamp", "resticSnapshotLatestDuration"}

S3Gauges ==
    {"s3SnapshotCount", "s3SnapshotTotalSize", "s3SnapshotLatestSize",
     "s3SnapshotLatestTimestamp", "s3SnapshotLatestDuration"}

\* The snapshots of the repository that resolve to the name, and the versions
\* of the bucket whose key derives to it.
SnapshotsOf(name) == {i \in 1..Len(repo) : repo[i].Name = name}

ObjectsOf(name) == {i \in 1..Len(bucket) : BackupNameOfKey(bucket[i].Key) = name}

\* A call of task.UpdateAllMetrics has returned.
RefreshReturned == job = "none" /\ runs >= 1

\* C12 (as stated): after any run of UpdateAllMetrics every gauge of the
\* repository and of the export target has a series for every configured
\* backup name, of value zero when the name has no snapshot or no object.
C12_GaugesExistAfterRefresh ==
    RefreshReturned =>
        \A n \in ConfigNames :
            /\ \A v \in ResticGauges :
                    n \in DOMAIN m[v] /\ (SnapshotsOf(n) = {} => m[v][n] = 0)
            /\ \A v \in S3Gauges :
                    n \in DOMAIN m[v] /\ (ObjectsOf(n) = {} => m[v][n] = 0)

(***************************************************************************)
(* Claims about startup.                                                   *)
(***************************************************************************)

\* C13 (as stated): when the scheduler starts, the metrics-refresh job and the
\* export job, and no other job, are handed to the executor at once, without
\* a cron trigger; before any cron trigger the queue and the runs started
\* hold one run of each of the two.
C13_MetricsAndExportStartImmediately ==
    [][(mainPc = "startup" /\ mainPc' = "serving") =>
            \A j \in Jobs :
                /\ fired'[j] = (IF j \in {"metrics", "s3"} THEN 1 ELSE 0)
                /\ Count(j, queue') = fired'[j]]_vars

(***************************************************************************)
(* Claims about startup.                                                   *)
(***************************************************************************)
\* The configurations C14 is about: two backups with the same name, a
\* required secret that is not set, or a repository the password does not open.
FatalConfiguration ==
    \/ HasDuplicateName(env.units)
    \/ env.secrets # SecretNames
    \/ (disk = "repository" /\ env.password # "right")

\* C14: with a duplicate backup name, a missing required secret or a wrong
\* password for an existing repository, main() never gets past
\* restic.NewRestic: the scheduler is not started, no trigger fires and no job
\* of any type starts.
C14_FatalConfigurationNeverSchedules ==
    FatalConfiguration =>
        /\ bootPc \in {"config", "restic", "panicked"}
        /\ mainPc = "startup"
        /\ registered = {}
        /\ \A j \in Jobs : fired[j] = 0 /\ started[j] = 0

\* main() panicked on the duplicate name of a configuration whose secrets are
\* all set.
C14_Witness ==
    /\ bootPc = "panicked"
    /\ bootErr = "duplicateName"
    /\ HasDuplicateName(env.units)
    /\ env.secrets = SecretNames

\* C15: when the cron expression of one job does not parse, main() never
\* starts the scheduler: no trigger fires and no job, of a valid expression or
\* not, starts.
C15_InvalidCronNeverSchedules ==
    env.invalidCron # {} =>
        /\ mainPc = "startup"
        /\ \A j \in Jobs : fired[j] = 0 /\ started[j] = 0

\* C16: NewRestic returns no error exactly when the path holds a repository
\* and the password opens it, or holds none and `restic init` succeeds; it
\* returns an error when the path holds a repository the password does not
\* open; and it never runs `restic init` on a path that holds a repository.
C16_OpenSucceedsExactlyWhen ==
    [][(bootPc = "restic" /\ bootPc' # "restic") =>
          /\ (bootPc' = "s3") <=>
                \/ (disk = "repository" /\ env.password = "right")
                \/ (disk \in {"missing", "emptyDir"} /\ init(disk, env))
          /\ (disk = "repository" /\ env.password # "right") => bootPc' = "panicked"
          /\ ~initOnRepository']_vars

(***************************************************************************)
(* Claims about the reconciliation passes.                                 *)
(***************************************************************************)
\* updateResticMetrics returned nil to UpdateAllMetrics, whose call of
\* updateS3Metrics is next.
ResticPassSucceeded == job = "UpdateAllMetrics" /\ pc = "listObjects"

\* The names the snapshots of the repository resolve to.
ObservedNames == {repo[i].Name : i \in 1..Len(repo)}

\* C17: a repository reconciliation that succeeded made one listing call, one
\* stats query for each name observed in the listing and none for any other
\* name, and set for every configured or observed name the count gauge to the
\* number of snapshots of that name and the total-size gauge to the result of
\* the name's stats query (zero where none was made).
C17_OneListingOneStatsPerName ==
    ResticPassSucceeded =>
        /\ Count(<<"list", "">>, callLog) = 1
        /\ \A n \in SnapshotNames \cup ConfigNames :
              Count(<<"stats", n>>, callLog) = (IF n \in ObservedNames THEN 1 ELSE 0)
        /\ Len(callLog) = 1 + Cardinality(ObservedNames)
        /\ \A n \in ConfigNames \cup ObservedNames :
              /\ n \in DOMAIN m.resticSnapshotCount
              /\ m.resticSnapshotCount[n] = Cardinality(SnapshotsOf(n))
              /\ n \in DOMAIN m.resticSnapshotTotalSize
              /\ m.resticSnapshotTotalSize[n] =
                    (IF n \in ObservedNames THEN StatsTotalSize(repo, n) ELSE 0)

\* The pass succeeded on a repository with two snapshots of one configured
\* name and none of the other configured name.
C17_Witness ==
    /\ ResticPassSucceeded
    /\ \E n \in ConfigNames : Cardinality(SnapshotsOf(n)) = 2
    /\ \E n \in ConfigNames : SnapshotsOf(n) = {}
    /\ callLog = <<<<"list", "">>, <<"stats", repo[1].Name>>>>

\* The snapshot of name n with the greatest creation time.
NewestOf(n) ==
    repo[CHOOSE i \in SnapshotsOf(n) : \A k \in SnapshotsOf(n) : repo[k].Time <= repo[i].Time]

\* C18: after a repository reconciliation that succeeded, the latest-size and
\* latest-timestamp gauges of every observed name are the size and the time of
\* the name's snapshot with the greatest creation time, in whatever order the
\* listing returned the snapshots.
C18_LatestIsNewestSnapshot ==
    ResticPassSucceeded =>
        \A n \in ObservedNames :
            /\ n \in DOMAIN m.resticSnapshotLatestTimestamp
            /\ m.resticSnapshotLatestTimestamp[n] = NewestOf(n).Time
            /\ n \in DOMAIN m.resticSnapshotLatestSize
            /\ m.resticSnapshotLatestSize[n] = NewestOf(n).Size

\* updateS3Metrics returns nil in this step: the listing succeeded.
S3PassSucceeds ==
    /\ pc = "listObjects"
    /\ pc' # "listObjects"
    /\ m'.schedulerErrors = m.schedulerErrors

\* The names derived from the keys of the listing.
DerivedNames == {BackupNameOfKey(bucket[i].Key) : i \in 1..Len(bucket)}

\* The versions of derived name n the store flags as the latest.
FlaggedLatest(n) == {i \in ObjectsOf(n) : bucket[i].IsLatest}

\* The sizes of the versions S of the bucket, added up.
RECURSIVE SizeOfVersions(_)
SizeOfVersions(S) ==
    IF S = {} THEN 0
    ELSE LET i == CHOOSE x \in S : TRUE IN bucket[i].Size + SizeOfVersions(S \ {i})

\* C19: an object-store reconciliation that succeeds makes one listing call
\* and sets, for every configured name and every name derived from a listed
\* key, the count gauge to the number of versions of that derived name, the
\* total-size gauge to the sum of their sizes, and the latest size and time to
\* those of the version flagged latest, or to zero when none is flagged.
C19_ObjectGaugesFollowListing ==
    [][S3PassSucceeds =>
          /\ Count(<<"listObjects", "">>, callLog') = 1
          /\ \A n \in ConfigNames \cup DerivedNames :
                /\ n \in DOMAIN m'.s3SnapshotCount
                /\ m'.s3SnapshotCount[n] = Cardinality(ObjectsOf(n))
                /\ n \in DOMAIN m'.s3SnapshotTotalSize
                /\ m'.s3SnapshotTotalSize[n] = SizeOfVersions(ObjectsOf(n))
                /\ n \in DOMAIN m'.s3SnapshotLatestSize
                /\ n \in DOMAIN m'.s3SnapshotLatestTimestamp
                /\ IF FlaggedLatest(n) = {}
                   THEN /\ m'.s3SnapshotLatestSize[n] = 0
                        /\ m'.s3SnapshotLatestTimestamp[n] = 0
                   ELSE \E i \in FlaggedLatest(n) :
                            /\ m'.s3SnapshotLatestSize[n] = bucket[i].Size
                            /\ m'.s3SnapshotLatestTimestamp[n] = bucket[i].CreatedAt]_vars

\* The refresh returned without an error over a bucket with two versions of a
\* configured name's key, the older one flagged latest, and the gauges of the
\* name are set from them.
C19_Witness ==
    /\ RefreshReturned
    /\ \A op \in SchedulerErrors : m.schedulerErrors[op] = 0
    /\ Len(bucket) = 2
    /\ \E n \in ConfigNames :
          /\ ObjectsOf(n) = {1, 2}
          /\ FlaggedLatest(n) = {1}
          /\ n \in DOMAIN m.s3SnapshotCount
          /\ m.s3SnapshotCount[n] = 2
          /\ m.s3SnapshotLatestTimestamp[n] = 1

\* The scheduler error counters move in this step by one for operation op and
\* not at all for the others.
OnlyCounts(op) ==
    \A o \in SchedulerErrors :
        m'.schedulerErrors[o] = m.schedulerErrors[o] + (IF o = op THEN 1 ELSE 0)

\* No series of a backup name is created or changed in this step.
NoBackupSeriesChanges == \A v \in PerBackupVectors : m'[v] = m[v]

\* C20: a refresh whose snapshot listing fails returns at once, counts one
\* restic_list_snapshots error and leaves every series of every backup name as
\* it was; a pass whose object listing fails counts one s3_list_objects error,
\* leaves every series as it was and returns.
C20_ListingFailureAbortsPass ==
    [][/\ (pc = "list" /\ pc' = "idle") =>
             /\ job' = "none"
             /\ callLog' = Append(callLog, <<"list", "">>)
             /\ OnlyCounts("restic_list_snapshots")
             /\ NoBackupSeriesChanges
       /\ (pc = "listObjects" /\ m'.schedulerErrors # m.schedulerErrors) =>
             /\ job' = "none"
             /\ callLog' = Append(callLog, <<"listObjects", "">>)
             /\ OnlyCounts("s3_list_objects")
             /\ NoBackupSeriesChanges]_vars

\* A refresh returned after its object listing failed over a bucket that holds
\* a version: the restic gauges are set, no object gauge exists.
C20_Witness ==
    /\ RefreshReturned
    /\ bucket # <<>>
    /\ callLog # <<>>
    /\ callLog[Len(callLog)] = <<"listObjects", "">>
    /\ m.schedulerErrors["s3_list_objects"] = 1
    /\ m.schedulerErrors["restic_list_snapshots"] = 0
    /\ \A n \in ConfigNames : n \in DOMAIN m.resticSnapshotCount
    /\ \A v \in S3Gauges : m[v] = NoSeries

\* C21: a stats query that fails ends the repository reconciliation and the
\* refresh: restic_get_snapshot_stats is counted once, and no series of any
\* backup name changes, in the failing step or in the steps of the queries
\* that succeeded before it in the pass.
C21_StatsFailureAbortsPass ==
    [][/\ (pc \in {"list", "stats"} /\ pc' = "stats") => m' = m
       /\ (pc = "stats" /\ (pc' = "idle" \/ m'.schedulerErrors # m.schedulerErrors)) =>
             /\ job' = "none"
             /\ pc' = "idle"
             /\ OnlyCounts("restic_get_snapshot_stats")
             /\ NoBackupSeriesChanges]_vars

\* A refresh returned after the stats query of its second name failed: the
\* first name's query had succeeded and no repository gauge exists.
C21_Witness ==
    /\ RefreshReturned
    /\ Len(callLog) = 3
    /\ callLog[2][1] = "stats"
    /\ callLog[3][1] = "stats"
    /\ callLog[2][2] # callLog[3][2]
    /\ m.schedulerErrors["restic_get_snapshot_stats"] = 1
    /\ \A v \in ResticGauges : m[v] = NoSeries

(***************************************************************************)
(* Claims about the job bodies.                                            *)
(***************************************************************************)
\* C22: when r.Check() or r.ForgetAndPrune() fails, the job counts one error
\* of its operation class and its run is over: it makes no further engine call.
C22_MaintenanceFailureAbortsRun ==
    [][/\ (pc = "check" /\ m' # m) =>
             (OnlyCounts("restic_check") /\ job' = "none")
       /\ (pc = "prune" /\ m' # m) =>
             (OnlyCounts("restic_forget_and_prune") /\ job' = "none")]_vars

\* C23: within one run no call is made twice: each of pre-command, backup and
\* post-command at most once per unit, the dump (restore and upload) at most
\* once per snapshot, a stats query at most once per name, and check, prune
\* and each listing at most once, whether the call failed or not.
C23_NoCallRepeatedInRun ==
    \A i, k \in 1..Len(callLog) : i # k => callLog[i] # callLog[k]

\* A run of the backup job returned in which the pre-command of the first
\* unit failed and the second unit was then backed up: the failed pre-command
\* was called once.
C23_Witness ==
    /\ job = "none"
    /\ runs = 1
    /\ outcome[1] = "preFail"
    /\ outcome[2] = "ok"
    /\ Count(<<"pre", Backups[1].Name>>, callLog) = 1
    /\ Count(<<"backup", Backups[1].Name>>, callLog) = 0
    /\ Count(<<"backup", Backups[2].Name>>, callLog) = 1
    /\ Count(<<"list", "">>, callLog) = 1

\* Call e of the call log is an operation of unit i: its pre-command, backup
\* or post-command, or the dump of the snapshot found for it in the listing.
Concerns(e, i) ==
    \/ e[1] \in {"pre", "backup", "post"} /\ e[2] = Backups[i].Name
    \/ e[1] = "dump" /\ e[2] = FindSnapshot(latest, Backups[i].Name).ID

\* C24: within one run of the backup job or of the export job the units are
\* processed in configuration order: every operation on a unit is an operation
\* on the unit at the loop's position, and while the run lasts the position
\* stays or moves to the next unit of the configuration, never back.
C24_UnitsInConfigurationOrder ==
    [][/\ (job # "none" /\ job' = job) => idx' \in {idx, idx + 1}
       /\ (Len(callLog') = Len(callLog) + 1
              /\ callLog'[Len(callLog')][1] \in {"pre", "backup", "post", "dump"}) =>
                /\ idx \in 1..Len(Backups)
                /\ Concerns(callLog'[Len(callLog')], idx)]_vars

\* An export run returned that dumped the snapshot of the first unit and then
\* that of the second, the listing having returned them the other way round.
C24_Witness ==
    /\ job = "none"
    /\ runs = 1
    /\ Len(latest) = 2
    /\ latest[1].Name = Backups[2].Name
    /\ latest[2].Name = Backups[1].Name
    /\ callLog = <<<<"listLatest", "">>, <<"dump", latest[2].ID>>, <<"dump", latest[1].ID>>,
                   <<"listObjects", "">>>>

\* The run made the listing call `op` of its reconciliation after every
\* operation on a unit, and no unit was left out.
ReconciledBy(op) ==
    /\ \E a \in 1..Len(callLog) :
        /\ callLog[a][1] = op
        /\ \A b \in 1..Len(callLog) :
              callLog[b][1] \in {"pre", "backup", "post", "dump"} => b < a
    /\ \A i \in 1..Len(Backups) : outcome[i] # "pending"

\* The count gauges of the repository are those of the repository as it is.
ResticCountsFollow ==
    \A n \in ConfigNames :
        /\ n \in DOMAIN m.resticSnapshotCount
        /\ m.resticSnapshotCount[n] = Cardinality(SnapshotsOf(n))

\* The count gauges of the object store are those of the bucket as it is.
S3CountsFollow ==
    \A n \in ConfigNames :
        /\ n \in DOMAIN m.s3SnapshotCount
        /\ m.s3SnapshotCount[n] = Cardinality(ObjectsOf(n))

NameTags == {i \in 1..Len(libArg.s.Tags) : \E k \in 0..Len(libArg.s.Tags[i]) :
                "name=" \o SubSeq(libArg.s.Tags[i], k + 1, Len(libArg.s.Tags[i])) = libArg.s.Tags[i]}

\* C26: a snapshot with a tag starting with "name=" resolves to what follows
\* "name=" in the first such tag, in tag order; a snapshot with no such tag
\* resolves to its own identifier.
C26_NameIsFirstNameTagOrID ==
    libRes.fn = "ToInternalSnapshot" =>
        IF NameTags = {}
        THEN libRes.Name = libArg.s.ID
        ELSE LET first == CHOOSE i \in NameTags : \A k \in NameTags : i <= k
             IN "name=" \o libRes.Name = libArg.s.Tags[first]

\* A snapshot whose two tags both start with "name=" resolved to the first.
C26_Witness ==
    /\ libRes.fn = "ToInternalSnapshot"
    /\ libArg.s.Tags = <<"name=db", "name=www">>
    /\ libRes.Name = "db"

\* C27: the export of a backup uploads to the key made of the backup name and
\* ".tar.gz.age", and the name the listing derives from that key is the backup
\* name, for every backup name, also one that itself ends in the suffix.
C27_KeyRoundTrip ==
    libRes.fn = "UploadAndList" =>
        /\ libRes.Key = libArg.name \o ".tar.gz.age"
        /\ Len(libRes.Key) = Len(libArg.name) + 11
        /\ libRes.BackupName = libArg.name

\* The export of a backup whose name ends in the suffix was listed under its
\* whole name.
C27_Witness ==
    /\ libRes.fn = "UploadAndList"
    /\ libArg.name = "db.tar.gz.age"
    /\ libRes.Key = "db.tar.gz.age.tar.gz.age"
    /\ libRes.BackupName = "db.tar.gz.age"

\* C28: extracting the tar stream written from a directory tree gives back
\* the tree: the same paths, each with the kind it had, a regular file with
\* its content and a symlink with its target, and no error.
C28_TarRoundTrip ==
    libRes.fn = "ExtractTar" =>
        /\ libRes.err = "nil"
        /\ DOMAIN libRes.fs = DOMAIN libArg.D
        /\ \A p \in DOMAIN libArg.D :
              /\ libRes.fs[p].kind = libArg.D[p].kind
              /\ libArg.D[p].kind = "file" => libRes.fs[p].content = libArg.D[p].content
              /\ libArg.D[p].kind = "symlink" => libRes.fs[p].target = libArg.D[p].target

\* A tree of a directory that holds a file with content and a symlink was
\* written and extracted.
C28_Witness ==
    /\ libRes.fn = "ExtractTar"
    /\ DOMAIN libArg.D = {<<"b">>, <<"b", "a">>, <<"b", "b">>}
    /\ libArg.D[<<"b", "a">>] = [kind |-> "symlink", content |-> "", target |-> "../b"]
    /\ libArg.D[<<"b", "b">>] = [kind |-> "file", content |-> "x", target |-> ""]
    /\ libRes.fs = libArg.D

\* The gauge vectors of the registry.
GaugeVectors == UNION {{GaugesOf[s][k] : k \in DOMAIN GaugesOf[s]} : s \in DOMAIN GaugesOf}

Sent == Len(errCh) + (IF joined THEN 1 ELSE 0)

\* C30: with every external call returning, the call returns: the producer
\* sends at most one result, has sent one whenever it is past its send, and
\* when the caller comes to wait on the channel the result is there.
C30_DumpCallReturns ==
    /\ [](Sent <= 1)
    /\ [](prodPc \in {"deferred", "ageCloseWrite", "done"} => Sent = 1)
    /\ [](callerPc = "join" => errCh # <<>>)
    /\ <>(callerPc = "returned")

\* The producer failed before it wrote anything, the upload read the end of
\* the stream and returned nil, and the caller received the producer's error.
C30_Witness ==
    /\ callerPc = "returned"
    /\ joined
    /\ upload = "ok"
    /\ stageFailed = {"recipient"}
    /\ result = "archiveErr"

(***************************************************************************)
(* Claims about failures in the export and in the backup job.              *)
(***************************************************************************)
\* C31 (as stated): when createAndUploadEncryptedDump returns an error, the
\* call stored no new version of the object; in particular no archive that a
\* failed producer stage cut short is stored.
C31_ErrorStoresNothing ==
    (callerPc = "returned" /\ result # "ok") => stored = "none"

\* The ways a unit of the backup job fails.
UnitFailures == {"preFail", "backupFail", "postFail"}

\* C32: in the backup job a unit whose pre-command failed gets no backup call
\* and no post-command, and a unit whose backup call failed gets no
\* post-command; the step in which a unit fails adds one to the unit's error
\* counter and leaves every duration gauge as it was, and no other step of the
\* run changes an error counter; the duration gauge of a unit is set only in
\* the step that ends the unit after its configured pre-command, its backup
\* and its configured post-command were all called and none failed.
C32_FailedUnitStopsAndCountsOnce ==
    /\ [](\A i \in 1..Len(Backups) :
            /\ outcome[i] = "preFail" =>
                /\ Count(<<"pre", Backups[i].Name>>, callLog) = 1
                /\ Count(<<"backup", Backups[i].Name>>, callLog) = 0
                /\ Count(<<"post", Backups[i].Name>>, callLog) = 0
            /\ outcome[i] = "backupFail" =>
                /\ Count(<<"backup", Backups[i].Name>>, callLog) = 1
                /\ Count(<<"post", Backups[i].Name>>, callLog) = 0)
    /\ [][job = "Backup" =>
            /\ (idx \in 1..Len(Backups) /\ outcome[idx] = "pending"
                    /\ outcome'[idx] \in UnitFailures) =>
                /\ Val(m'.resticSnapshotErrors, Backups[idx].Name)
                        = Val(m.resticSnapshotErrors, Backups[idx].Name) + 1
                /\ m'.resticSnapshotLatestDuration = m.resticSnapshotLatestDuration
            /\ m'.resticSnapshotErrors # m.resticSnapshotErrors =>
                /\ idx \in 1..Len(Backups)
                /\ outcome[idx] = "pending" /\ outcome'[idx] \in UnitFailures
                /\ \A n \in ConfigNames \ {Backups[idx].Name} :
                        Val(m'.resticSnapshotErrors, n) = Val(m.resticSnapshotErrors, n)
            /\ m'.resticSnapshotLatestDuration # m.resticSnapshotLatestDuration =>
                /\ idx \in 1..Len(Backups)
                /\ outcome[idx] = "pending" /\ outcome'[idx] = "ok"
                /\ Count(<<"backup", Backups[idx].Name>>, callLog') = 1
                /\ Backups[idx].PreCommand # "" => Count(<<"pre", Backups[idx].Name>>, callLog') = 1
                /\ Backups[idx].PostCommand # "" => Count(<<"post", Backups[idx].Name>>, callLog') = 1
                /\ \A n \in ConfigNames \ {Backups[idx].Name} :
                        /\ n \in DOMAIN m'.resticSnapshotLatestDuration
                                <=> n \in DOMAIN m.resticSnapshotLatestDuration
                        /\ Val(m'.resticSnapshotLatestDuration, n)
                                = Val(m.resticSnapshotLatestDuration, n)]_vars

\* A run returned in which the backup of the first unit failed after its
\* pre-command and the post-command of the second failed after its backup:
\* each is counted once and neither has a duration gauge.
C32_Witness ==
    /\ job = "none"
    /\ runs = 1
    /\ outcome = <<"backupFail", "postFail">>
    /\ Backups[1].PreCommand # ""
    /\ Count(<<"pre", Backups[1].Name>>, callLog) = 1
    /\ Count(<<"post", Backups[1].Name>>, callLog) = 0
    /\ Count(<<"post", Backups[2].Name>>, callLog) = 1
    /\ m.resticSnapshotErrors[Backups[1].Name] = 1
    /\ m.resticSnapshotErrors[Backups[2].Name] = 1
    /\ m.resticSnapshotLatestDuration = NoSeries

\* C33: an export run whose latest-snapshot listing fails ends in that step:
\* the listing is the only call of the run, so no snapshot is dumped and no
\* object listing issued; nothing is stored, restic_list_snapshots is counted
\* once and no other scheduler error, and no series of any backup name, the
\* export error counters included, changes.
C33_LatestListingFailureAbortsExport ==
    /\ [][(job = "S3Backup" /\ pc = "listLatest" /\ m' # m) =>
            /\ job' = "none"
            /\ pc' = "idle"
            /\ callLog' = <<<<"listLatest", "">>>>
            /\ OnlyCounts("restic_list_snapshots")
            /\ NoBackupSeriesChanges
            /\ bucket' = bucket
            /\ latest' = latest
            /\ outcome' = [i \in 1..NumUnits |-> "aborted"]]_vars
    /\ []((runs = 1 /\ \E i \in 1..NumUnits : outcome[i] = "aborted") =>
            /\ job = "none"
            /\ callLog = <<<<"listLatest", "">>>>
            /\ bucket = <<>>
            /\ m.schedulerErrors["s3_list_objects"] = 0
            /\ m.s3SnapshotErrors = NoSeries
            /\ \A v \in S3Gauges : m[v] = NoSeries)

\* An export run over a repository holding a snapshot of every configured
\* backup returned after its listing failed.
C33_Witness ==
    /\ job = "none"
    /\ runs = 1
    /\ \A n \in ConfigNames : SnapshotsOf(n) # {}
    /\ \A i \in 1..NumUnits : outcome[i] = "aborted"
    /\ callLog = <<<<"listLatest", "">>>>
    /\ m.schedulerErrors["restic_list_snapshots"] = 1
    /\ bucket = <<>>

\* Every vector of the export target: its gauges and its error counter.
S3Vectors == S3Gauges \cup {"s3SnapshotErrors", "s3SnapshotLatestDuration"}

\* C34: in a run of UpdateAllMetrics the step in which the snapshot listing or
\* a stats query fails ends the run with no object listing issued and every
\* vector of the export target as it was; the run reaches the object listing
\* only from the step that ends a repository reconciliation without an error,
\* after the listing and the stats query of every name it found and with the
\* snapshot counts set, and only the object listing changes a vector of the
\* export target.
C34_ObjectStoreOnlyAfterRepository ==
    [][job = "UpdateAllMetrics" =>
        /\ (pc \in {"list", "stats"} /\ m'.schedulerErrors # m.schedulerErrors) =>
              /\ job' = "none"
              /\ pc' = "idle"
              /\ Count(<<"listObjects", "">>, callLog') = 0
              /\ \A v \in S3Vectors : m'[v] = m[v]
        /\ (pc # "listObjects" /\ pc' = "listObjects") =>
              /\ pc \in {"list", "stats"}
              /\ m'.schedulerErrors = m.schedulerErrors
              /\ Count(<<"list", "">>, callLog') = 1
              /\ Count(<<"listObjects", "">>, callLog') = 0
              /\ \A n \in {repo[i].Name : i \in 1..Len(repo)} :
                    Count(<<"stats", n>>, callLog') = 1
              /\ \A n \in ConfigNames \cup {repo[i].Name : i \in 1..Len(repo)} :
                    /\ n \in DOMAIN m'.resticSnapshotCount
                    /\ m'.resticSnapshotCount[n] = Cardinality(SnapshotsOf(n))
        /\ (callLog' # callLog /\ callLog'[Len(callLog')] = <<"listObjects", "">>) =>
              pc = "listObjects"
        /\ (\E v \in S3Vectors : m'[v] # m[v]) => pc = "listObjects"]_vars

\* A refresh over a bucket that holds a version returned after a stats query
\* failed: no object was listed and no series of the export target exists.
C34_Witness ==
    /\ RefreshReturned
    /\ runs = 1
    /\ bucket # <<>>
    /\ Len(callLog) = 2
    /\ callLog[1] = <<"list", "">>
    /\ callLog[2][1] = "stats"
    /\ m.schedulerErrors["restic_get_snapshot_stats"] = 1
    /\ \A v \in S3Vectors : m[v] = NoSeries

\* C35: no step of a refresh removes a series of any vector, and a backup name
\* that is not configured keeps every repository series it has, with its
\* value, in every step of a refresh whose repository holds no snapshot of the
\* name, and every export-target series it has in every step of a refresh
\* whose bucket holds no object of the name.
C35_UnwrittenSeriesAreKept ==
    [][job = "UpdateAllMetrics" =>
        /\ \A v \in PerBackupVectors : DOMAIN m[v] \subseteq DOMAIN m'[v]
        /\ DOMAIN m.schedulerErrors \subseteq DOMAIN m'.schedulerErrors
        /\ \A n \in SnapshotNames \ ConfigNames :
            /\ SnapshotsOf(n) = {} =>
                \A v \in ResticGauges \cup {"resticSnapshotErrors"} :
                    n \in DOMAIN m[v] => m'[v][n] = m[v][n]
            /\ ObjectsOf(n) = {} =>
                \A v \in S3Vectors :
                    n \in DOMAIN m[v] => m'[v][n] = m[v][n]]_vars

\* A refresh ran through both reconciliations over a repository and a bucket
\* that hold nothing of a name that is not configured; the name's gauges still
\* count the snapshot and the object the earlier refresh saw.
C35_Witness ==
    /\ RefreshReturned
    /\ callLog # <<>>
    /\ callLog[Len(callLog)] = <<"listObjects", "">>
    /\ \A o \in SchedulerErrors : m.schedulerErrors[o] = 0
    /\ \E n \in SnapshotNames \ ConfigNames :
        /\ SnapshotsOf(n) = {}
        /\ ObjectsOf(n) = {}
        /\ n \in DOMAIN m.resticSnapshotCount
        /\ m.resticSnapshotCount[n] = 1
        /\ m.resticSnapshotLatestTimestamp[n] > 0
        /\ n \in DOMAIN m.s3SnapshotCount
        /\ m.s3SnapshotCount[n] = 1
    /\ \E c \in ConfigNames : m.resticSnapshotCount[c] = 0

\* C36: the step in which the restore fails returns the restore error, and a
\* call that returned the restore error opened no pipe and no error channel,
\* started no producer, read and stored nothing.
C36_RestoreFailureStopsBeforePipe ==
    /\ [][(callerPc = "restore" /\ callerPc' # "pipe") =>
            /\ callerPc' = "returned"
            /\ result' = "restoreErr"]_vars
    /\ [](result = "restoreErr" =>
            /\ callerPc = "returned"
            /\ pipe = NoPipe
            /\ errCh = <<>>
            /\ prodPc = "none"
            /\ prodErr = "nil"
            /\ stageFailed = {}
            /\ defers = <<>>
            /\ chunks = 0
            /\ ~joined
            /\ upload = "none"
            /\ stored = "none")
    /\ []((pipe.open \/ prodPc # "none" \/ upload # "none") =>
            result \notin {"mkdirErr", "restoreErr"})

\* The call returned the restore error; the temporary directory it had made
\* is removed.
C36_Witness ==
    /\ callerPc = "returned"
    /\ result = "restoreErr"
    /\ tmpDir = "removed"
    /\ pipe = NoPipe
    /\ prodPc = "none"
    /\ upload = "none"

\* The run's log holds a dump of a snapshot of the listing that carries name n.
Dumped(n) ==
    \E k \in 1..Len(callLog) : \E j \in 1..Len(latest) :
        /\ callLog[k][1] = "dump"
        /\ latest[j].ID = callLog[k][2]
        /\ latest[j].Name = n

\* C37: the step of an export run that dumps for the unit at idx dumps the
\* first snapshot of the listing that carries the unit's name, no snapshot of
\* that name was dumped and no version stored under its key earlier in the
\* run, and what the step stores is one version under that key; no other step
\* of the run stores anything, so no snapshot of a name that is not configured
\* is dumped and no key of such a name gets a version.
C37_OneUploadOfFirstMatch ==
    /\ [][(job = "S3Backup" /\ pc = "export" /\ callLog' # callLog) =>
            /\ \E k \in 1..Len(latest) :
                /\ latest[k].Name = Backups[idx].Name
                /\ \A j \in 1..(k - 1) : latest[j].Name # Backups[idx].Name
                /\ callLog' = Append(callLog, <<"dump", latest[k].ID>>)
            /\ ~Dumped(Backups[idx].Name)
            /\ \A i \in 1..Len(bucket) : bucket[i].Key # ObjectKey(Backups[idx].Name)
            /\ \/ bucket' = bucket
               \/ /\ Len(bucket') = Len(bucket) + 1
                  /\ SubSeq(bucket', 1, Len(bucket)) = bucket
                  /\ bucket'[Len(bucket')].Key = ObjectKey(Backups[idx].Name)]_vars
    /\ [][(job = "S3Backup" /\ (bucket' # bucket \/ callLog' # callLog)) =>
            \/ pc = "export" /\ callLog'[Len(callLog')][1] = "dump"
            \/ bucket' = bucket /\ callLog'[Len(callLog')][1] \in {"listLatest", "listObjects"}]_vars
    /\ [](\A i \in 1..Len(bucket) : bucket[i].Key \in {ObjectKey(n) : n \in ConfigNames})

\* An export run returned whose listing held two snapshots of one configured
\* name, the older one first: the older one was dumped and stored, the newer
\* one was not dumped.
C37_Witness ==
    /\ job = "none"
    /\ runs = 1
    /\ Len(latest) = 2
    /\ latest[1].Name = latest[2].Name
    /\ latest[1].Name \in ConfigNames
    /\ latest[1].Time < latest[2].Time
    /\ Count(<<"dump", latest[1].ID>>, callLog) = 1
    /\ Count(<<"dump", latest[2].ID>>, callLog) = 0
    /\ Cardinality({i \in 1..Len(bucket) : bucket[i].Key = ObjectKey(latest[1].Name)}) = 1

====
